---------------------------- MODULE Spec2Model ----------------------------
(***************************************************************************)
(* Verification model of the aggregation-and-retrieval core of agent-tech: *)
(*   - the Specification Registry (src/src/utils/SpecificationManager.js), *)
(*   - the Calendar Store        (src/src/utils/calendarFetcher.js and the *)
(*     durable calendar cache of dataStorage, src/unnamed/part_004).       *)
(* Every public call is one action: JavaScript runs a handler to           *)
(* completion between awaits, and the callers do not overlap mutating      *)
(* calls on one component.  The inputs of a call that the program does not *)
(* decide (network outcome, page fetched, storage write failing) are drawn *)
(* with \E.                                                                *)
(***************************************************************************)
EXTENDS Integers, Sequences, FiniteSets, TLC

(***************************************************************************)
(* Bounds of the model.                                                    *)
(***************************************************************************)
MaxTs == 2
MaxVersion == 2
MaxTicks == 3
MaxElements == 2
MaxItems == 2
MaxPrevious == 2
MaxPasses == 2

VARIABLES
    useApi,               \* SpecificationManager.useApi
    specs,                \* SpecificationManager.specs (held catalog or null)
    lastSyncTimestamp,    \* SpecificationManager.lastSyncTimestamp
    lsSpecifications,     \* localStorage['specifications']
    lsLastSyncTimestamp,  \* localStorage['lastSyncTimestamp']
    srcCatalog,           \* what the catalog endpoint / local file serves
    srcVersionTs,         \* what the version endpoint serves (API mode)
    regCall,              \* the registry call just completed, and the one before
    syncPending           \* the syncSpecifications() calls awaiting the catalog

regVars == <<useApi, specs, lastSyncTimestamp, lsSpecifications,
             lsLastSyncTimestamp, srcCatalog, srcVersionTs, regCall,
             syncPending>>

VARIABLES
    now,                   \* Date.now(), in milliseconds
    today,                 \* the local calendar day of new Date(), as a day number
    utcShift,              \* the UTC calendar day of new Date() minus the local one
    inMemorySessionCache,  \* calendarFetcher's module-level session cache
    lsCalendarCache,       \* localStorage['calendarCache']
    calCall,               \* the calendar call just completed
    dateCall,              \* the standardizeDate call just completed
    calPending             \* the fetchAllEvents() calls awaiting the network

calVars == <<now, today, utcShift, inMemorySessionCache, lsCalendarCache,
             calCall, dateCall, calPending>>

VARIABLES
    categories,            \* this.specs.categories of a registry that is only read
    lookCall               \* the registry lookup just completed

lookVars == <<categories, lookCall>>

VARIABLES
    knowledgeBase,         \* pdfProcessor's module-level knowledgeBase
    passes,                \* extractPdfContent calls made so far
    kbCall                 \* the Document Indexer call just completed

kbVars == <<knowledgeBase, passes, kbCall>>

VARIABLES
    isInitialized,         \* the router's module-level flag
    initCalls,             \* where each initializeKnowledgeBase call stands
    routerCall             \* the router call that took the last step

routerVars == <<isInitialized, initCalls, routerCall>>

docVars == <<lookVars, kbVars, routerVars>>

vars == <<regVars, calVars, docVars>>

(***************************************************************************)
(* JavaScript values.                                                      *)
(* A timestamp is a positive integer (a date that parses; larger = later), *)
(* NoTimestamp (null / undefined: falsy, a missing lastUpdated) or         *)
(* InvalidTimestamp (a truthy string that is no date, such as the text     *)
(* "undefined" that localStorage.setItem stores for undefined).            *)
(***************************************************************************)
NoTimestamp == 0
InvalidTimestamp == -1

Timestamps == 1..MaxTs

\* The JavaScript null that this.specs starts as, and a JSON body "null".
NullCatalog == [kind |-> "null"]

\* A JSON object with a metadata block.
Catalog(v, t) == [kind |-> "catalog", hasMetadata |-> TRUE,
                  version |-> v, lastUpdated |-> t]

\* A JSON value that parses but carries no metadata block, such as {}.
BareCatalog == [kind |-> "catalog", hasMetadata |-> FALSE,
                version |-> 0, lastUpdated |-> NoTimestamp]

\* A body on which response.json() throws.
UnparsableBody == [kind |-> "unparsable"]

WellFormedCatalogs ==
    {Catalog(v, t) : v \in 1..MaxVersion, t \in Timestamps \cup {NoTimestamp}}

MalformedBodies == {BareCatalog, NullCatalog, UnparsableBody}

\* The bodies the catalog source may serve.  The API branch never reads
\* metadata.lastUpdated (its timestamp is the version endpoint's), so there
\* the catalogs differ by version alone.
SourceBodies(api) ==
    IF api THEN {Catalog(v, NoTimestamp) : v \in 1..MaxVersion} \cup MalformedBodies
           ELSE WellFormedCatalogs \cup MalformedBodies

\* !x for a catalog-valued expression
Falsy(c) == c.kind = "null"

(***************************************************************************)
(* localStorage.  A key is absent, or holds a string.                      *)
(***************************************************************************)
LsAbsent == [kind |-> "absent"]
LsCorrupt == [kind |-> "text", json |-> FALSE]

\* JSON.stringify(catalog): a string that JSON.parse turns back into it
Stringify(c) == [kind |-> "text", json |-> TRUE, value |-> c]

\* localStorage.setItem('lastSyncTimestamp', ts) stores String(ts):
\* undefined becomes the text "undefined", which reads back truthy.
StoredTimestamp(ts) == IF ts = NoTimestamp THEN InvalidTimestamp ELSE ts

(***************************************************************************)
(* syncSpecifications                                                      *)
(***************************************************************************)
\* (mutant) >= in place of >
LocalNewerOrEqual(newTs, last) ==
    /\ newTs > 0
    /\ IF last = NoTimestamp THEN TRUE ELSE last > 0 /\ newTs >= last

\* new Date(newTimestamp) > new Date(this.lastSyncTimestamp || 0)
LocalNewer(newTs, last) ==
    /\ newTs > 0
    /\ IF last = NoTimestamp THEN TRUE ELSE last > 0 /\ newTs > last

\* newTimestamp > this.lastSyncTimestamp
ApiNewer(newTs, last) ==
    /\ newTs > 0
    /\ IF last = NoTimestamp THEN TRUE ELSE last > 0 /\ newTs > last

\* needsUpdate = !this.specs || !this.lastSyncTimestamp || <newer>
NeedsUpdate(heldSpecs, last, newer) ==
    Falsy(heldSpecs) \/ last = NoTimestamp \/ newer

\* The state a call leaves and what it returns.
SyncResult(s, l, ls, lt, res, fail, req) ==
    [specs |-> s, last |-> l, lsSpecs |-> ls, lsTs |-> lt,
     result |-> res, failure |-> fail, catalogRequested |-> req]

\* Lines 61-72: install, persist, log, report.  storageFails names the
\* setItem call that throws (0: none).
InstallAndPersist(h, l, ls, lt, newSpecs, newTs, needsUpdate, storageFails, req) ==
    IF needsUpdate /\ ~Falsy(newSpecs)
    THEN IF storageFails = 1
         THEN SyncResult(newSpecs, newTs, ls, lt, FALSE, "storage", req)
         ELSE IF storageFails = 2
         THEN SyncResult(newSpecs, newTs, Stringify(newSpecs), lt, FALSE, "storage", req)
         ELSE IF ~newSpecs.hasMetadata
         \* console.log(..., this.specs.metadata.version) throws a TypeError
         THEN SyncResult(newSpecs, newTs, Stringify(newSpecs),
                         StoredTimestamp(newTs), FALSE, "malformed", req)
         ELSE SyncResult(newSpecs, newTs, Stringify(newSpecs),
                         StoredTimestamp(newTs), TRUE, "none", req)
    ELSE SyncResult(h, l, ls, lt, FALSE,
                    IF needsUpdate THEN "malformed" ELSE "none", req)

\* Lines 49-58: the local-file branch.
SyncLocal(h, l, ls, lt, body, netOk, storageFails) ==
    IF ~netOk THEN SyncResult(h, l, ls, lt, FALSE, "network", TRUE)
    ELSE IF body.kind = "unparsable"
    THEN SyncResult(h, l, ls, lt, FALSE, "unparsable", TRUE)
    ELSE IF body.kind = "null" \/ ~body.hasMetadata
    \* newSpecs.metadata.lastUpdated throws a TypeError
    THEN SyncResult(h, l, ls, lt, FALSE, "malformed", TRUE)
    ELSE InstallAndPersist(h, l, ls, lt, body, body.lastUpdated,
             NeedsUpdate(h, l, LocalNewer(body.lastUpdated, l)),
             storageFails, TRUE)

\* (mutant) the full catalog is downloaded whatever the version check says
SyncApiAlwaysDownloads(h, l, ls, lt, body, versionTs, netVersionOk, netOk, storageFails) ==
    IF ~netVersionOk THEN SyncResult(h, l, ls, lt, FALSE, "network", FALSE)
    ELSE LET needsUpdate == NeedsUpdate(h, l, ApiNewer(versionTs, l))
         IN  IF ~netOk
             THEN SyncResult(h, l, ls, lt, FALSE, "network", TRUE)
             ELSE IF body.kind = "unparsable"
             THEN SyncResult(h, l, ls, lt, FALSE, "unparsable", TRUE)
             ELSE InstallAndPersist(h, l, ls, lt, body, versionTs,
                                    needsUpdate, storageFails, TRUE)

\* Lines 36-47: the API branch, version check first.
SyncApi(h, l, ls, lt, body, versionTs, netVersionOk, netOk, storageFails) ==
    IF ~netVersionOk THEN SyncResult(h, l, ls, lt, FALSE, "network", FALSE)
    ELSE LET needsUpdate == NeedsUpdate(h, l, ApiNewer(versionTs, l))
         IN  IF ~needsUpdate
             THEN InstallAndPersist(h, l, ls, lt, NullCatalog, versionTs,
                                    FALSE, storageFails, FALSE)
             ELSE IF ~netOk
             THEN SyncResult(h, l, ls, lt, FALSE, "network", TRUE)
             ELSE IF body.kind = "unparsable"
             THEN SyncResult(h, l, ls, lt, FALSE, "unparsable", TRUE)
             ELSE InstallAndPersist(h, l, ls, lt, body, versionTs,
                                    TRUE, storageFails, TRUE)

\* async syncSpecifications(): try { ... } catch { return false }
SyncOutcome(api, h, l, ls, lt, body, versionTs, netVersionOk, netOk, storageFails) ==
    IF api
    THEN SyncApi(h, l, ls, lt, body, versionTs, netVersionOk, netOk, storageFails)
    ELSE SyncLocal(h, l, ls, lt, body, netOk, storageFails)

\* No call has completed since construction or since the environment moved.
NoCall == [op |-> "none", result |-> FALSE, failure |-> "none",
           catalogRequested |-> FALSE, nth |-> 0, prevResult |-> FALSE,
           cache |-> "none"]

\* What initialize() found under the 'specifications' key.
CacheFound(ls) ==
    IF ls.kind = "absent" THEN "absent"
    ELSE IF ls.json THEN "valid" ELSE "corrupt"

\* nth is 2 for a call that directly follows a call of the same operation
\* (nothing in between: no restart, no change of the source or the storage),
\* and prevResult is then what that call returned; nth is 1 otherwise.
CallRecord(op, out) ==
    [op |-> op, result |-> out.result, failure |-> out.failure,
     catalogRequested |-> out.catalogRequested,
     nth |-> IF regCall.op = op THEN 2 ELSE 1,
     prevResult |-> IF regCall.op = op THEN regCall.result ELSE FALSE,
     cache |-> IF op = "initialize" THEN CacheFound(lsSpecifications)
               ELSE "none"]

Apply(op, out) ==
    /\ specs' = out.specs
    /\ lastSyncTimestamp' = out.last
    /\ lsSpecifications' = out.lsSpecs
    /\ lsLastSyncTimestamp' = out.lsTs
    /\ regCall' = CallRecord(op, out)
    /\ UNCHANGED <<useApi, srcCatalog, srcVersionTs, syncPending, calVars,
                   docVars>>

SyncSpecifications ==
    \E netVersionOk \in BOOLEAN, netOk \in BOOLEAN, storageFails \in 0..2 :
        Apply("sync",
              SyncOutcome(useApi, specs, lastSyncTimestamp, lsSpecifications,
                          lsLastSyncTimestamp, srcCatalog, srcVersionTs,
                          netVersionOk, netOk, storageFails))

(***************************************************************************)
(* initialize: load the durable copy, then sync.                           *)
(***************************************************************************)
\* (mutant) the catch block only logs: the blob and the timestamp stay
LoadFromStorageKeepsCorrupt(h, l, ls, lt) ==
    IF ls.kind = "absent"
    THEN [specs |-> h, last |-> l, lsSpecs |-> ls, lsTs |-> lt]
    ELSE IF ls.json
    THEN [specs |-> ls.value, last |-> lt, lsSpecs |-> ls, lsTs |-> lt]
    ELSE [specs |-> h, last |-> l, lsSpecs |-> ls, lsTs |-> lt]

\* (mutant) the catalog is loaded, the stored timestamp is not
LoadFromStorageSpecsOnly(h, l, ls, lt) ==
    IF ls.kind = "absent"
    THEN [specs |-> h, last |-> l, lsSpecs |-> ls, lsTs |-> lt]
    ELSE IF ls.json
    THEN [specs |-> ls.value, last |-> l, lsSpecs |-> ls, lsTs |-> lt]
    ELSE [specs |-> h, last |-> l, lsSpecs |-> LsAbsent, lsTs |-> NoTimestamp]

\* Lines 14-24.  getItem of an absent key is null.
LoadFromStorage(h, l, ls, lt) ==
    IF ls.kind = "absent"
    THEN [specs |-> h, last |-> l, lsSpecs |-> ls, lsTs |-> lt]
    ELSE IF ls.json
    THEN [specs |-> ls.value, last |-> lt, lsSpecs |-> ls, lsTs |-> lt]
    ELSE [specs |-> h, last |-> l, lsSpecs |-> LsAbsent, lsTs |-> NoTimestamp]

Initialize ==
    \E netVersionOk \in BOOLEAN, netOk \in BOOLEAN, storageFails \in 0..2 :
        LET ld == LoadFromStorage(specs, lastSyncTimestamp, lsSpecifications,
                                  lsLastSyncTimestamp)
        IN  Apply("initialize",
                  SyncOutcome(useApi, ld.specs, ld.last, ld.lsSpecs, ld.lsTs,
                              srcCatalog, srcVersionTs,
                              netVersionOk, netOk, storageFails))

\* A page reload: new SpecificationManager(options); localStorage persists.
Restart ==
    /\ specs' = NullCatalog
    /\ lastSyncTimestamp' = NoTimestamp
    /\ regCall' = NoCall
    /\ UNCHANGED <<useApi, lsSpecifications, lsLastSyncTimestamp,
                   srcCatalog, srcVersionTs, syncPending, calVars, docVars>>

(***************************************************************************)
(* The environment.                                                        *)
(***************************************************************************)
\* The catalog's maintainers publish another body / version timestamp.
SourcePublishes ==
    \E body \in SourceBodies(useApi), ts \in Timestamps \cup {NoTimestamp} :
        /\ srcCatalog' = body
        /\ srcVersionTs' = IF useApi THEN ts ELSE srcVersionTs
        /\ <<srcCatalog', srcVersionTs'>> # <<srcCatalog, srcVersionTs>>
        /\ regCall' = NoCall
        /\ UNCHANGED <<useApi, specs, lastSyncTimestamp, lsSpecifications,
                       lsLastSyncTimestamp, syncPending, calVars, docVars>>

\* Another writer leaves a blob that does not parse.
StorageCorrupted ==
    /\ lsSpecifications # LsCorrupt
    /\ lsSpecifications' = LsCorrupt
    /\ regCall' = NoCall
    /\ UNCHANGED <<useApi, specs, lastSyncTimestamp, lsLastSyncTimestamp,
                   srcCatalog, srcVersionTs, syncPending, calVars, docVars>>

(***************************************************************************)
(* Overlapping calls.  In API mode syncSpecifications() awaits the version *)
(* endpoint, decides needsUpdate, and then awaits the catalog (lines       *)
(* 36-46); other calls run while it waits, and what it installs afterwards *)
(* is the timestamp it read before the wait.                               *)
(***************************************************************************)
SyncCallers == {"first", "second"}

NotPending == [stage |-> "none", newTimestamp |-> NoTimestamp]

NoSyncPending == [c \in SyncCallers |-> NotPending]

\* Lines 36-42: the version endpoint has answered.  A call that fails there
\* or needs no update returns; one that needs the catalog goes on waiting,
\* holding the timestamp it was given.
SyncVersionChecked(c) ==
    /\ useApi
    /\ syncPending[c].stage = "none"
    /\ \E netVersionOk \in BOOLEAN :
          IF netVersionOk
             /\ NeedsUpdate(specs, lastSyncTimestamp,
                            ApiNewer(srcVersionTs, lastSyncTimestamp))
          THEN /\ syncPending' = [syncPending EXCEPT ![c] =
                                     [stage |-> "catalog",
                                      newTimestamp |-> srcVersionTs]]
               /\ regCall' = NoCall
               /\ UNCHANGED <<specs, lastSyncTimestamp, lsSpecifications,
                              lsLastSyncTimestamp>>
          ELSE LET out == SyncApi(specs, lastSyncTimestamp, lsSpecifications,
                                  lsLastSyncTimestamp, srcCatalog,
                                  srcVersionTs, netVersionOk, TRUE, 0)
               IN  /\ specs' = out.specs
                   /\ lastSyncTimestamp' = out.last
                   /\ lsSpecifications' = out.lsSpecs
                   /\ lsLastSyncTimestamp' = out.lsTs
                   /\ regCall' = CallRecord("sync", out)
                   /\ UNCHANGED syncPending
    /\ UNCHANGED <<useApi, srcCatalog, srcVersionTs, calVars, docVars>>

\* Lines 43-46 and 61-76 of a call that needed the catalog: needsUpdate is
\* still true and newTimestamp is still what the version endpoint gave.
SyncDownload(h, l, ls, lt, body, newTimestamp, netOk, storageFails) ==
    IF ~netOk
    THEN SyncResult(h, l, ls, lt, FALSE, "network", TRUE)
    ELSE IF body.kind = "unparsable"
    THEN SyncResult(h, l, ls, lt, FALSE, "unparsable", TRUE)
    ELSE InstallAndPersist(h, l, ls, lt, body, newTimestamp, TRUE,
                           storageFails, TRUE)

\* The catalog endpoint has answered and the call runs to its return, on
\* the registry as it is by then.
SyncCatalogFetched(c) ==
    /\ syncPending[c].stage = "catalog"
    /\ \E netOk \in BOOLEAN, storageFails \in 0..2 :
          LET out == SyncDownload(specs, lastSyncTimestamp, lsSpecifications,
                                  lsLastSyncTimestamp, srcCatalog,
                                  syncPending[c].newTimestamp, netOk,
                                  storageFails)
          IN  /\ specs' = out.specs
              /\ lastSyncTimestamp' = out.last
              /\ lsSpecifications' = out.lsSpecs
              /\ lsLastSyncTimestamp' = out.lsTs
              /\ regCall' = CallRecord("sync", out)
    /\ syncPending' = [syncPending EXCEPT ![c] = NotPending]
    /\ UNCHANGED <<useApi, srcCatalog, srcVersionTs, calVars, docVars>>

SyncOverlapNext ==
    \/ \E c \in SyncCallers :
          \/ SyncVersionChecked(c)
          \/ SyncCatalogFetched(c)
    \/ SourcePublishes

RegInit ==
    /\ useApi \in BOOLEAN
    /\ specs = NullCatalog
    /\ lastSyncTimestamp = NoTimestamp
    /\ lsSpecifications = LsAbsent
    /\ lsLastSyncTimestamp = NoTimestamp
    /\ srcCatalog \in SourceBodies(useApi)
    /\ srcVersionTs \in IF useApi THEN Timestamps \cup {NoTimestamp} ELSE {NoTimestamp}
    /\ regCall = NoCall
    /\ syncPending = NoSyncPending

RegistryNext ==
    \/ SyncSpecifications
    \/ Initialize
    \/ Restart
    \/ SourcePublishes
    \/ StorageCorrupted

(***************************************************************************)
(* The Calendar Store.                                                     *)
(* Time is Date.now() in milliseconds; it advances in steps of one cache   *)
(* lifetime.        A calendar date is a day number whose remainder by 7   *)
(* is its Date.getDay() (0 = Sunday); NoDate is the empty string that      *)
(* parseCalendarDate returns for a text it cannot parse.                   *)
(***************************************************************************)
CACHE_EXPIRY_MS == 3600000
SessionExpiryMs == 3600000
DayRange == 3
Friday == 5
FallbackWeeks == 5
NoDate == 0
NoFetchTime == 0

TickMs == CACHE_EXPIRY_MS
Times == {k * TickMs : k \in 1..MaxTicks}

Weekday(d) == d % 7

\* The days the program may be started on (a Thursday, a Friday), and how
\* the UTC calendar day of that instant differs from the local one (in a zone
\* ahead of UTC, before the local clock has passed the offset: -1).
Todays == {25, 26}
UtcShifts == {-1, 0}

\* The dates the fetched page may show, and the dates asked for.
EventDays == {14, 17}
QueryDays == {11, 14}

Abs(x) == IF x < 0 THEN 0 - x ELSE x

(***************************************************************************)
(* getFallbackEvents                                                       *)
(***************************************************************************)
\* while (date.getDay() !== 5) date.setDate(date.getDate() + 1)
RECURSIVE AdvanceToFriday(_)
AdvanceToFriday(d) == IF Weekday(d) = Friday THEN d ELSE AdvanceToFriday(d + 1)

\* Lines 219-224: the local days pushed, a Friday and the day after it,
\* then 6 days on.
UpcomingDates(start) ==
    [i \in 1..(2 * FallbackWeeks) |-> start + 7 * ((i - 1) \div 2) + ((i - 1) % 2)]

\* d.toISOString().split('T')[0]: the UTC calendar day of a local Date
ToISODate(localDay, shift) == localDay + shift

\* Lines 225-236.  isFriday reads the local getDay(); date is the ISO day.
FallbackEvent(d, shift) ==
    [title |-> IF Weekday(d) = Friday THEN "Friday Night Live at Studio 338"
                                      ELSE "Saturday Sessions",
     date |-> ToISODate(d, shift),
     isFallback |-> TRUE]

GetFallbackEvents(t, shift) ==
    LET dates == UpcomingDates(AdvanceToFriday(t))
    IN  [i \in 1..(2 * FallbackWeeks) |-> FallbackEvent(dates[i], shift)]

(***************************************************************************)
(* parseCalendarEvents                                                     *)
(***************************************************************************)
\* A fetched page is the sequence of its .event-item / .calendar-event
\* elements; an element is written as the date parseCalendarDate makes of
\* its date text, and its other texts are left at their defaults.
Pages == UNION {[1..n -> EventDays \cup {NoDate}] : n \in 0..MaxElements}

\* events.push({title, date: eventDate, ...}) for element i of the page
ParsedEvent(page, i) ==
    [title |-> "Untitled Event", date |-> page[i], isFallback |-> FALSE]

\* Array.prototype.sort is stable: e goes behind every element that the
\* comparator new Date(b.date) - new Date(a.date) does not put after it.
RECURSIVE InsertByDateDesc(_, _)
InsertByDateDesc(e, sorted) ==
    IF sorted = <<>> THEN <<e>>
    ELSE IF Head(sorted).date >= e.date
         THEN <<Head(sorted)>> \o InsertByDateDesc(e, Tail(sorted))
         ELSE <<e>> \o sorted

RECURSIVE SortByDateDesc(_)
SortByDateDesc(evs) ==
    IF Len(evs) <= 1 THEN evs
    ELSE InsertByDateDesc(evs[Len(evs)], SortByDateDesc(SubSeq(evs, 1, Len(evs) - 1)))

Reorderings(evs) ==
    {[i \in 1..Len(evs) |-> evs[p[i]]] :
        p \in {q \in [1..Len(evs) -> 1..Len(evs)] :
                  \A i, j \in 1..Len(evs) : i # j => q[i] # q[j]}}

\* events.sort((a, b) => new Date(b.date) - new Date(a.date)).  With an
\* empty date the comparator returns NaN: it is not a consistent comparator
\* and the order of the result is implementation-defined.
SortOutcomes(evs) ==
    IF \E i \in 1..Len(evs) : evs[i].date = NoDate
    THEN Reorderings(evs)
    ELSE {SortByDateDesc(evs)}

\* (mutant) no fallback for a page without events
ParseCalendarEventsNoFallback(page, t, shift) ==
    SortOutcomes([i \in 1..Len(page) |-> ParsedEvent(page, i)])

\* Lines 90-125: the sequences the call may return for a page.
ParseCalendarEvents(page, t, shift) ==
    IF Len(page) > 0
    THEN SortOutcomes([i \in 1..Len(page) |-> ParsedEvent(page, i)])
    ELSE {GetFallbackEvents(t, shift)}

\* What parseCalendarEvents may return on a given day, over all pages.
ParseResults ==
    [td \in Todays, shift \in UtcShifts |->
        UNION {ParseCalendarEvents(page, td, shift) : page \in Pages}]

(***************************************************************************)
(* dataStorage: the durable calendar cache                                 *)
(***************************************************************************)
EmptySessionCache == [events |-> <<>>, lastFetched |-> NoFetchTime]

\* saveCalendarCache(events, timestamp) at time t; saveOk is FALSE when
\* localStorage.setItem throws (the catch logs it and goes on).
SaveCalendarCache(ls, events, timestamp, t, saveOk) ==
    IF saveOk
    THEN Stringify([events |-> events, fetchTimestamp |-> timestamp,
                    expiryTimestamp |-> t + CACHE_EXPIRY_MS])
    ELSE ls

\* (mutant) an expired entry is reported absent but stays in the store
GetCalendarCacheKeepsExpired(ls, t) ==
    IF ls.kind = "absent"
    THEN [found |-> FALSE, cache |-> EmptySessionCache, ls |-> ls]
    ELSE IF ~ls.json
    THEN [found |-> FALSE, cache |-> EmptySessionCache, ls |-> LsAbsent]
    ELSE IF t > ls.value.expiryTimestamp
    THEN [found |-> FALSE, cache |-> EmptySessionCache, ls |-> ls]
    ELSE [found |-> TRUE,
          cache |-> [events |-> ls.value.events,
                     lastFetched |-> ls.value.fetchTimestamp],
          ls |-> ls]

\* getCalendarCache() at time t: what it returns (found = FALSE for null)
\* and what it leaves in localStorage.
GetCalendarCache(ls, t) ==
    IF ls.kind = "absent"
    THEN [found |-> FALSE, cache |-> EmptySessionCache, ls |-> ls]
    ELSE IF ~ls.json
    THEN [found |-> FALSE, cache |-> EmptySessionCache, ls |-> LsAbsent]
    ELSE IF t > ls.value.expiryTimestamp
    THEN [found |-> FALSE, cache |-> EmptySessionCache, ls |-> LsAbsent]
    ELSE [found |-> TRUE,
          cache |-> [events |-> ls.value.events,
                     lastFetched |-> ls.value.fetchTimestamp],
          ls |-> ls]

(***************************************************************************)
(* fetchAllEvents                                                          *)
(***************************************************************************)
\* (mutant) the in-session cache is used whatever its age
SessionCacheUsableAnyAge(session, t) ==
    /\ Len(session.events) > 0
    /\ session.lastFetched # NoFetchTime

\* Lines 33-34
SessionCacheUsable(session, t) ==
    /\ Len(session.events) > 0
    /\ session.lastFetched # NoFetchTime
    /\ t - session.lastFetched < SessionExpiryMs

FetchResult(returned, session, ls, source) ==
    [returned |-> returned, session |-> session, ls |-> ls, source |-> source]

\* (mutant) the catch block always answers with the fallback events
OnFetchErrorAlwaysFallback(session, ls, td, shift) ==
    FetchResult(GetFallbackEvents(td, shift), session, ls, "fallback")

\* Lines 68-78: the catch block.
OnFetchError(session, ls, td, shift) ==
    IF Len(session.events) > 0
    THEN FetchResult(session.events, session, ls, "stale")
    ELSE FetchResult(GetFallbackEvents(td, shift), session, ls, "fallback")

\* (mutant) the session cache is asked before the durable one
CacheLookupSessionFirst(session, ls, t) ==
    LET stored == GetCalendarCache(ls, t)
    IN  IF SessionCacheUsable(session, t)
        THEN [hit |-> TRUE,
              out |-> FetchResult(session.events, session, stored.ls, "session")]
        ELSE IF stored.found /\ Len(stored.cache.events) > 0
        THEN [hit |-> TRUE,
              out |-> FetchResult(stored.cache.events, stored.cache, stored.ls,
                                  "durable")]
        ELSE [hit |-> FALSE,
              out |-> FetchResult(<<>>, session, stored.ls, "none")]

\* Lines 24-37: the two cache layers, asked in turn.  hit = FALSE when the
\* call goes on to the network; out.ls is what getCalendarCache left.
CacheLookup(session, ls, t) ==
    LET stored == GetCalendarCache(ls, t)
    IN  IF stored.found /\ Len(stored.cache.events) > 0
        THEN [hit |-> TRUE,
              out |-> FetchResult(stored.cache.events, stored.cache, stored.ls,
                                  "durable")]
        ELSE IF SessionCacheUsable(session, t)
        THEN [hit |-> TRUE,
              out |-> FetchResult(session.events, session, stored.ls, "session")]
        ELSE [hit |-> FALSE,
              out |-> FetchResult(<<>>, session, stored.ls, "none")]

\* (mutant) a fetched page is saved to the durable entry only; the in-session
\* cache keeps what it held
FetchFreshDurableOnly(session, ls, t, td, shift, netOk, parsed, saveOk) ==
    IF ~netOk
    THEN OnFetchError(session, ls, td, shift)
    ELSE FetchResult(parsed, session,
                     SaveCalendarCache(ls, parsed, t, t, saveOk), "network")

\* (mutant) generated fallback events are returned but not cached
FetchFreshFallbackNotCached(session, ls, t, td, shift, netOk, parsed, saveOk) ==
    IF ~netOk
    THEN OnFetchError(session, ls, td, shift)
    ELSE IF parsed = GetFallbackEvents(td, shift)
    THEN FetchResult(parsed, session, ls, "network")
    ELSE FetchResult(parsed, [events |-> parsed, lastFetched |-> t],
                     SaveCalendarCache(ls, parsed, t, t, saveOk), "network")

\* Lines 39-78.  netOk: fetch resolved with response.ok and a readable body;
\* parsed: what parseCalendarEvents made of it; saveOk: the durable write
\* went through.
FetchFresh(session, ls, t, td, shift, netOk, parsed, saveOk) ==
    IF ~netOk
    THEN OnFetchError(session, ls, td, shift)
    ELSE FetchResult(parsed, [events |-> parsed, lastFetched |-> t],
                     SaveCalendarCache(ls, parsed, t, t, saveOk), "network")

\* (mutant) only the fetch time is forgotten, the events and the durable
\* entry stay
InvalidateFetchTimeOnly(session, ls) ==
    [session |-> [events |-> session.events, lastFetched |-> NoFetchTime],
     ls |-> ls]

\* Lines 244-246 of refreshEventCache: clearCalendarCache() and a new, empty
\* inMemorySessionCache.
InvalidateCaches(session, ls) ==
    [session |-> EmptySessionCache, ls |-> LsAbsent]

(***************************************************************************)
(* getEventForDate                                                         *)
(***************************************************************************)
NoResult == [found |-> FALSE, exact |-> FALSE, events |-> <<>>,
             message |-> "", error |-> FALSE]

\* (mutant) the window leaves out its two end days
FindNearbyEventsStrict(events, targetDate, dayRange) ==
    LET InRange(event) ==
            /\ event.date # NoDate
            /\ Abs(event.date - targetDate) < dayRange
    IN  SelectSeq(events, InRange)

\* Lines 181-189.  new Date('YYYY-MM-DD').getTime() is the UTC midnight of
\* that day, a multiple of dayInMs, so the comparison in milliseconds
\* |eventTimestamp - targetTimestamp| <= dayRange * dayInMs is the same
\* comparison in days.
FindNearbyEvents(events, targetDate, dayRange) ==
    LET InRange(event) ==
            /\ event.date # NoDate
            /\ Abs(event.date - targetDate) <= dayRange
    IN  SelectSeq(events, InRange)

\* (mutant) the window is searched before the exact date
MatchEventsNearbyFirst(events, standardDate) ==
    LET nearbyEvents == FindNearbyEvents(events, standardDate, DayRange)
    IN  IF nearbyEvents # <<>>
        THEN [found |-> TRUE, exact |-> FALSE, events |-> nearbyEvents,
              message |-> "", error |-> FALSE]
        ELSE [found |-> FALSE, exact |-> FALSE, events |-> <<>>,
              message |-> "No events found for this date", error |-> FALSE]

\* Lines 170-174
MatchEvents(events, standardDate) ==
    LET hits == {i \in 1..Len(events) : events[i].date = standardDate}
        nearbyEvents == FindNearbyEvents(events, standardDate, DayRange)
    IN  IF hits # {}
        THEN [found |-> TRUE, exact |-> TRUE,
              events |-> <<events[CHOOSE i \in hits : \A j \in hits : i <= j]>>,
              message |-> "", error |-> FALSE]
        ELSE IF nearbyEvents # <<>>
        THEN [found |-> TRUE, exact |-> FALSE, events |-> nearbyEvents,
              message |-> "", error |-> FALSE]
        ELSE [found |-> FALSE, exact |-> FALSE, events |-> <<>>,
              message |-> "No events found for this date", error |-> FALSE]

(***************************************************************************)
(* The calls.                                                              *)
(***************************************************************************)
NoCalCall == [op |-> "none", source |-> "none", returned |-> <<>>,
              query |-> NoDate, result |-> NoResult]

ApplyCal(op, out, query) ==
    /\ inMemorySessionCache' = out.session
    /\ lsCalendarCache' = out.ls
    /\ calCall' = [op |-> op, source |-> out.source, returned |-> out.returned,
                   query |-> query,
                   result |-> IF op = "getEventForDate"
                              THEN MatchEvents(out.returned, query)
                              ELSE NoResult]
    /\ UNCHANGED <<now, today, utcShift, dateCall, calPending, regVars, docVars>>

\* Lines 23-79: one fetchAllEvents() call from the given caches, on behalf of
\* op, over the outcome of the network fetch, the page fetched and the
\* durable write.
RunFetchAllEvents(op, session, ls, query) ==
    LET looked == CacheLookup(session, ls, now)
    IN  IF looked.hit
        THEN ApplyCal(op, looked.out, query)
        ELSE \/ ApplyCal(op, FetchFresh(looked.out.session, looked.out.ls, now,
                                        today, utcShift, FALSE, <<>>, FALSE),
                         query)
             \/ \E parsed \in ParseResults[today, utcShift], saveOk \in BOOLEAN :
                    ApplyCal(op, FetchFresh(looked.out.session, looked.out.ls,
                                            now, today, utcShift, TRUE, parsed,
                                            saveOk),
                             query)

FetchAllEvents ==
    RunFetchAllEvents("fetchAllEvents", inMemorySessionCache, lsCalendarCache,
                      NoDate)

(***************************************************************************)
(* standardizeDate.  The texts are dates of the year the day numbers lie   *)
(* in, whose November holds the days 1..30 and whose December follows it.  *)
(***************************************************************************)
\* "2026-11-<day>", already YYYY-MM-DD
IsoText(day) ==
    [kind |-> "iso", first |-> 0, second |-> 0, padded |-> TRUE, day |-> day]

\* "<first>/<second>/2026" or "<first>-<second>-2026"; padded: a part below
\* ten is written with a leading zero, "05" (FALSE: "5")
DelimitedText(first, second, padded) ==
    [kind |-> "slashed", first |-> first, second |-> second,
     padded |-> padded, day |-> NoDate]

\* "<first>/<second>/2026", both parts of two digits
SlashedText(first, second) == DelimitedText(first, second, TRUE)

\* Words that new Date cannot read in any engine, such as "tomorrow"
WordsText ==
    [kind |-> "words", first |-> 0, second |-> 0, padded |-> TRUE,
     day |-> NoDate]

\* No string at all (null)
NullText ==
    [kind |-> "null", first |-> 0, second |-> 0, padded |-> TRUE,
     day |-> NoDate]

DateTexts ==
    {IsoText(day) : day \in QueryDays}
    \cup {SlashedText(14, 11), SlashedText(11, 14), SlashedText(14, 14),
          WordsText, NullText}

\* The texts given to standardizeDate on its own: every pair of parts, with
\* and without leading zeros.
DateParts == {5, 6, 11, 12, 14}
AllDateTexts ==
    DateTexts
    \cup {DelimitedText(first, second, TRUE) :
             first \in DateParts, second \in DateParts}
    \cup {DelimitedText(first, second, FALSE) :
             first \in {5, 6}, second \in DateParts}
    \cup {DelimitedText(first, second, FALSE) :
             first \in DateParts, second \in {5, 6}}

\* What new Date makes of a text that is not in the date-time format of the
\* language, such as "2026-6-5": the language leaves it to the engine.  It
\* is an Invalid Date, or the local midnight of that day, whose UTC day
\* (toISOString) is that day, or the day before in a zone ahead of UTC.
LegacyParses == {"invalid", "local", "localAhead"}

\* new Date(`2026-${month}-${day}`) is a date: isNaN(date.getTime()) is
\* false.  (Days 29 to 31 that a month lacks are rolled over by some engines
\* and rejected by others; the texts above have none.)
IsValidDate(month, day) == month \in 1..12 /\ day \in 1..28

\* date.toISOString().split('T')[0], as a day number (of a date in November
\* or December; an ISO date text is read as UTC midnight, so the day is kept)
DayNumber(month, day) == (month - 11) * 30 + day

\* `${parts[2]}-${month}-${day}` is in the YYYY-MM-DD format when both parts
\* have two digits; new Date then reads it as the UTC midnight of that day.
IsIsoFormat(text) == text.padded \/ (text.first >= 10 /\ text.second >= 10)

\* Lines 198-199, 206-207: new Date(`${parts[2]}-${month}-${day}`) and, if it
\* is a date, its toISOString().split('T')[0]; NoDate for an Invalid Date.
ReadDate(text, month, day, legacy) ==
    IF ~IsValidDate(month, day) THEN NoDate
    ELSE IF IsIsoFormat(text) THEN DayNumber(month, day)
    ELSE IF legacy = "invalid" THEN NoDate
    ELSE IF legacy = "local" THEN DayNumber(month, day)
    ELSE DayNumber(month, day) - 1

\* Lines 191-212; NoDate is ''.
StandardizeDate(text, legacy) ==
    IF text.kind = "null" THEN NoDate
    ELSE IF text.kind = "iso" THEN text.day
    ELSE IF text.kind = "slashed"
    THEN LET uk == ReadDate(text, text.second, text.first, legacy)
         IN  IF uk # NoDate THEN uk
             ELSE ReadDate(text, text.first, text.second, legacy)
    ELSE NoDate

NoDateCall ==
    [op |-> "none", text |-> NullText, legacy |-> "invalid", result |-> NoDate]

\* standardizeDate(text) on its own
StandardizeDateCall ==
    \E text \in AllDateTexts, legacy \in LegacyParses :
        /\ dateCall' = [op |-> "standardizeDate", text |-> text,
                        legacy |-> legacy,
                        result |-> StandardizeDate(text, legacy)]
        /\ UNCHANGED <<now, today, utcShift, inMemorySessionCache,
                       lsCalendarCache, calCall, calPending, regVars, docVars>>

DateNext == StandardizeDateCall

\* Line 168: standardizeDate returned ''
InvalidDateResult == [NoResult EXCEPT !.message = "Invalid date format"]

\* (mutant) the check of line 168 is gone
AlwaysStandardized(standardDate) == TRUE

\* Line 168: !standardDate is false
Standardized(standardDate) == standardDate # NoDate

\* Lines 165-179
GetEventForDate ==
    \E standardDate \in {StandardizeDate(text, legacy) :
                             text \in DateTexts, legacy \in LegacyParses} :
        IF Standardized(standardDate)
        THEN RunFetchAllEvents("getEventForDate", inMemorySessionCache,
                               lsCalendarCache, standardDate)
        ELSE /\ calCall' = [NoCalCall EXCEPT !.op = "getEventForDate",
                                             !.result = InvalidDateResult]
             /\ UNCHANGED <<now, today, utcShift, dateCall, calPending,
                            inMemorySessionCache,
                            lsCalendarCache, regVars, docVars>>

\* Lines 243-248: fetchAllEvents() on the caches as InvalidateCaches left them
RefreshEventCache ==
    LET cleared == InvalidateCaches(inMemorySessionCache, lsCalendarCache)
    IN  RunFetchAllEvents("refreshEventCache", cleared.session, cleared.ls,
                          NoDate)

\* A page reload: the module is evaluated again, localStorage persists.
CalendarRestart ==
    /\ inMemorySessionCache' = EmptySessionCache
    /\ calCall' = NoCalCall
    /\ UNCHANGED <<now, today, utcShift, dateCall, calPending, lsCalendarCache,
                   regVars, docVars>>

\* Another writer leaves a blob that does not parse.
CalendarStorageCorrupted ==
    /\ lsCalendarCache # LsCorrupt
    /\ lsCalendarCache' = LsCorrupt
    /\ calCall' = NoCalCall
    /\ UNCHANGED <<now, today, utcShift, dateCall, calPending,
                   inMemorySessionCache, regVars, docVars>>

Tick ==
    /\ now + TickMs \in Times
    /\ now' = now + TickMs
    /\ calCall' = NoCalCall
    /\ UNCHANGED <<today, utcShift, dateCall, calPending, inMemorySessionCache,
                   lsCalendarCache, regVars, docVars>>

(***************************************************************************)
(* Overlapping calls.  fetchAllEvents() is asynchronous: a call that finds *)
(* no usable cache awaits the network (lines 39-56), and other calls run   *)
(* while it waits.  What a call does before the await and what it does     *)
(* after it are each one step.                                             *)
(***************************************************************************)
CalCallers == {"first", "second"}

NoPending == [c \in CalCallers |-> "none"]

\* Lines 24-37, on behalf of op: a call that hits a cache layer completes,
\* one that misses is left awaiting the fetch of lines 39-56.
BeginFetchAllEvents(c, op, session, ls) ==
    LET looked == CacheLookup(session, ls, now)
    IN  /\ calPending[c] = "none"
        /\ inMemorySessionCache' = looked.out.session
        /\ lsCalendarCache' = looked.out.ls
        /\ IF looked.hit
           THEN /\ calCall' = [NoCalCall EXCEPT !.op = op,
                                                !.source = looked.out.source,
                                                !.returned = looked.out.returned]
                /\ UNCHANGED calPending
           ELSE /\ calCall' = NoCalCall
                /\ calPending' = [calPending EXCEPT ![c] = op]
        /\ UNCHANGED <<now, today, utcShift, dateCall, regVars, docVars>>

FetchAllEventsBegins(c) ==
    BeginFetchAllEvents(c, "fetchAllEvents", inMemorySessionCache,
                        lsCalendarCache)

\* Lines 243-247: both layers are cleared before fetchAllEvents() is called
RefreshEventCacheBegins(c) ==
    LET cleared == InvalidateCaches(inMemorySessionCache, lsCalendarCache)
    IN  BeginFetchAllEvents(c, "refreshEventCache", cleared.session, cleared.ls)

\* Lines 56-78: the awaited fetch settles and the call runs to its return,
\* on the caches as they are by then.
FetchAllEventsCompletes(c) ==
    /\ calPending[c] # "none"
    /\ \E netOk \in BOOLEAN, parsed \in ParseResults[today, utcShift],
          saveOk \in BOOLEAN :
          LET out == FetchFresh(inMemorySessionCache, lsCalendarCache, now,
                                today, utcShift, netOk, parsed, saveOk)
          IN  /\ inMemorySessionCache' = out.session
              /\ lsCalendarCache' = out.ls
              /\ calCall' = [NoCalCall EXCEPT !.op = calPending[c],
                                              !.source = out.source,
                                              !.returned = out.returned]
    /\ calPending' = [calPending EXCEPT ![c] = "none"]
    /\ UNCHANGED <<now, today, utcShift, dateCall, regVars, docVars>>

OverlapNext ==
    \/ \E c \in CalCallers :
          \/ FetchAllEventsBegins(c)
          \/ RefreshEventCacheBegins(c)
          \/ FetchAllEventsCompletes(c)
    \/ Tick

CalInit ==
    /\ now = TickMs
    /\ today \in Todays
    /\ utcShift \in UtcShifts
    /\ inMemorySessionCache = EmptySessionCache
    /\ lsCalendarCache = LsAbsent
    /\ calCall = NoCalCall
    /\ dateCall = NoDateCall
    /\ calPending = NoPending

CalendarNext ==
    \/ FetchAllEvents
    \/ GetEventForDate
    \/ RefreshEventCache
    \/ CalendarRestart
    \/ CalendarStorageCorrupted
    \/ Tick

(***************************************************************************)
(* The Specification Registry's lookups: getItemById and getChangeHistory. *)
(* They only read this.specs.categories, so they are applied to every      *)
(* bounded catalog rather than to the few a sync installs.  The keys of a  *)
(* JavaScript object are visited by for...in in insertion order; a         *)
(* category is written as the sequence of its subcategory values in that   *)
(* order, and the categories as the sequence of the categories.            *)
(***************************************************************************)
NoNote == ""
NoId == ""

\* A subcategory value: an array of items, or something that is no array.
ArrayOf(elems) == [isArray |-> TRUE, elems |-> elems]
NotAnArray == [isArray |-> FALSE, elems |-> <<>>]

\* One PreviousVersion snapshot: a partial field set, no id.
Snapshot(lu) == [lastUpdated |-> lu, changeNote |-> "Initial setup"]

\* An item; changeNote = NoNote when the item carries no such field.
Item(id, quantity, lu, note, pv) ==
    [id |-> id, quantity |-> quantity, lastUpdated |-> lu, changeNote |-> note,
     previousVersions |-> pv]

ItemIds == {"cdj-3000", "main-led-wall"}
LookupIds == ItemIds \cup {"cherry-picker"}

SeqsUpTo(S, n) == UNION {[1..k -> S] : k \in 0..n}

\* Items that differ in id and, under one id, in quantity.
ScanItems ==
    {Item("cdj-3000", 4, 2, NoNote, ArrayOf(<<>>)),
     Item("cdj-3000", 6, 2, NoNote, ArrayOf(<<>>)),
     Item("main-led-wall", 4, 2, NoNote, ArrayOf(<<>>))}

\* Items that differ in their history: lastUpdated present or missing, a
\* changeNote field of the item's own or none, previousVersions missing or
\* an array of snapshots dated before, on or after the item's own date.
HistoryItems ==
    {Item("cdj-3000", 6, lu, note, pv) :
        lu \in {NoTimestamp, 2}, note \in {NoNote, "Price drop"},
        pv \in {NotAnArray} \cup
               {ArrayOf(s) : s \in SeqsUpTo({Snapshot(t) : t \in 1..3}, MaxPrevious)}}

Subcategories ==
    {NotAnArray} \cup {ArrayOf(s) : s \in SeqsUpTo(ScanItems, MaxItems)}

\* this.specs.categories: absent (no catalog held, or a catalog without
\* categories), or two categories, the first with two subcategories.
NoCategories == [present |-> FALSE, keys |-> <<>>]

HeldCategories ==
    {[present |-> TRUE, keys |-> <<(<<s1, s2>>), (<<s3>>)>>] :
        s1 \in Subcategories, s2 \in Subcategories, s3 \in Subcategories}
    \cup
    {[present |-> TRUE, keys |-> <<(<<ArrayOf(<<i>>), ArrayOf(<<>>)>>), (<<NotAnArray>>)>>] :
        i \in HistoryItems}

NoItem == Item(NoId, 0, NoTimestamp, NoNote, NotAnArray)
ItemNotFound == [found |-> FALSE, item |-> NoItem]

\* (mutant) the last match in the array wins
FindLastInArray(items, id) ==
    LET hits == {i \in 1..Len(items) : items[i].id = id}
    IN  IF hits = {} THEN ItemNotFound
        ELSE [found |-> TRUE,
              item |-> items[CHOOSE i \in hits : \A j \in hits : j <= i]]

\* Line 105: subcategoryItems.find(item => item.id === id)
FindInArray(items, id) ==
    LET hits == {i \in 1..Len(items) : items[i].id = id}
    IN  IF hits = {} THEN ItemNotFound
        ELSE [found |-> TRUE,
              item |-> items[CHOOSE i \in hits : \A j \in hits : i <= j]]

\* Lines 102-108: the subcategories of one category, in key order
RECURSIVE ScanSubcategories(_, _)
ScanSubcategories(subs, id) ==
    IF subs = <<>> THEN ItemNotFound
    ELSE LET hit == IF Head(subs).isArray
                    THEN FindInArray(Head(subs).elems, id)
                    ELSE ItemNotFound
         IN  IF hit.found THEN hit ELSE ScanSubcategories(Tail(subs), id)

\* Lines 100-109: the categories, in key order
RECURSIVE ScanCategories(_, _)
ScanCategories(cats, id) ==
    IF cats = <<>> THEN ItemNotFound
    ELSE LET hit == ScanSubcategories(Head(cats), id)
         IN  IF hit.found THEN hit ELSE ScanCategories(Tail(cats), id)

\* Lines 98-112
GetItemById(cats, id) ==
    IF ~cats.present THEN ItemNotFound ELSE ScanCategories(cats.keys, id)

\* Lines 122-126: { lastUpdated: item.lastUpdated, changeNote: "Current
\* version", ...item }.  The spread comes last, so a field of the item wins
\* over the two written before it.
CurrentRecord(item) ==
    [id |-> item.id, lastUpdated |-> item.lastUpdated,
     changeNote |-> IF item.changeNote # NoNote THEN item.changeNote
                    ELSE "Current version"]

\* A snapshot copied into the history: it has no id.
SnapshotRecord(s) ==
    [id |-> NoId, lastUpdated |-> s.lastUpdated, changeNote |-> s.changeNote]

\* The stable sort of line 127 on dates that all parse.
RECURSIVE InsertByLastUpdatedDesc(_, _)
InsertByLastUpdatedDesc(r, sorted) ==
    IF sorted = <<>> THEN <<r>>
    ELSE IF Head(sorted).lastUpdated >= r.lastUpdated
         THEN <<Head(sorted)>> \o InsertByLastUpdatedDesc(r, Tail(sorted))
         ELSE <<r>> \o sorted

RECURSIVE SortByLastUpdatedDesc(_)
SortByLastUpdatedDesc(h) ==
    IF Len(h) <= 1 THEN h
    ELSE InsertByLastUpdatedDesc(h[Len(h)],
                                 SortByLastUpdatedDesc(SubSeq(h, 1, Len(h) - 1)))

\* (mutant) the history is returned as assembled, unsorted
UnsortedHistory(h) == {h}

\* Line 127: history.sort((a, b) => new Date(b.lastUpdated) - new
\* Date(a.lastUpdated)).  A missing lastUpdated makes the comparator return
\* NaN, and the order is then implementation-defined.
SortHistoryOutcomes(h) ==
    IF \E i \in 1..Len(h) : h[i].lastUpdated = NoTimestamp
    THEN Reorderings(h)
    ELSE {SortByLastUpdatedDesc(h)}

\* Lines 114-128: the sequences the call may return.
GetChangeHistory(cats, id) ==
    LET got == GetItemById(cats, id)
        pv == got.item.previousVersions
        history == IF pv.isArray
                   THEN [i \in 1..Len(pv.elems) |-> SnapshotRecord(pv.elems[i])]
                   ELSE <<>>
    IN  IF ~got.found THEN {<<>>}
        ELSE SortHistoryOutcomes(<<CurrentRecord(got.item)>> \o history)

NoLookCall == [op |-> "none", id |-> NoId, found |-> FALSE, item |-> NoItem,
               history |-> <<>>]

GetItemByIdCall ==
    /\ \E id \in LookupIds :
          LET got == GetItemById(categories, id)
          IN  lookCall' = [op |-> "getItemById", id |-> id, found |-> got.found,
                           item |-> got.item, history |-> <<>>]
    /\ UNCHANGED <<categories, regVars, calVars, kbVars, routerVars>>

GetChangeHistoryCall ==
    /\ \E id \in LookupIds :
          LET got == GetItemById(categories, id)
          IN  \E h \in GetChangeHistory(categories, id) :
                 lookCall' = [op |-> "getChangeHistory", id |-> id,
                              found |-> got.found, item |-> got.item,
                              history |-> h]
    /\ UNCHANGED <<categories, regVars, calVars, kbVars, routerVars>>

LookInit ==
    /\ categories \in HeldCategories \cup {NoCategories}
    /\ lookCall = NoLookCall

LookAtRest ==
    /\ categories = NoCategories
    /\ lookCall = NoLookCall

LookupNext ==
    \/ GetItemByIdCall
    \/ GetChangeHistoryCall

(***************************************************************************)
(* The Document Indexer (pdfProcessor).                                    *)
(* A page's text is textContent.items joined by single spaces; it is       *)
(* written as the sequence of its space-separated tokens.  "." is the      *)
(* full stop, "£5" a price; every other token is made of letters or        *)
(* digits.  No token holds a keyword as a proper part, so that             *)
(* String.includes on the text is membership of a token, or, for a text    *)
(* of several words, being a contiguous part of the token sequence.  The   *)
(* texts have no blank line: a page is one paragraph.  A remark in         *)
(* brackets, "(black)", is one token.  A JavaScript object used as a map   *)
(* is the sequence of its entries in insertion order.                      *)
(***************************************************************************)
FullStop == "."
PriceToken == "£5"
Numerals == {"2", "3"}
SpecTokens == {"(black)", "(white)"}

\* parseInt(quantity, 10) and parseFloat(price)
ParseInt(t) == IF t = "2" THEN 2 ELSE IF t = "3" THEN 3 ELSE 5

\* String.prototype.toLowerCase, on the tokens in use
Lower(t) ==
    CASE t = "Widget" -> "widget"
      [] t = "Gadget" -> "gadget"
      [] t = "How" -> "how"
      [] t = "What" -> "what"
      [] t = "Studio" -> "studio"
      [] t = "The" -> "the"
      [] t = "Unknown" -> "unknown"
      [] t = "Pioneer" -> "pioneer"
      [] t = "CDJ" -> "cdj"
      [] t = "CDJ-3000" -> "cdj-3000"
      [] OTHER -> t

LowerText(text) == [i \in 1..Len(text) |-> Lower(text[i])]

\* String.prototype.includes between two texts
Includes(text, part) ==
    \/ part = <<>>
    \/ \E i \in 1..(Len(text) - Len(part) + 1) :
          SubSeq(text, i, i + Len(part) - 1) = part

\* The pages that documents are made of.
PageStock ==
    <<(<<"2", "x", "Widget", ".">>),
      (<<"3", "x", "Widget", ".">>),
      (<<"3", "x", "Widget", "2", "x", "Gadget">>),
      (<<"maximum", "limit", ".", "speaker", "maximum">>),
      (<<"Widget", "£5", ".", "£5">>),
      (<<"2", "x", "Widget", "(black)">>),
      (<<"3", "x", "Widget", "(white)">>),
      (<<"3", "x", "widget", ".">>)>>

\* The documents that pdfjs.getDocument may load: their pages' texts.
Docs ==
    {<<PageStock[1]>>, <<PageStock[1], PageStock[2]>>, <<PageStock[3]>>,
     <<PageStock[4]>>, <<PageStock[4], PageStock[4]>>, <<PageStock[5]>>,
     <<PageStock[6], PageStock[7]>>, <<PageStock[1], PageStock[8]>>}

\* Lines 17-23: the module-level object before any extraction.  faqs is a
\* key that only generateFAQs adds.
NoFaqs == [built |-> FALSE, list |-> <<>>]
EmptyKnowledgeBase ==
    [equipment |-> <<>>, specifications |-> <<>>, pricing |-> <<>>,
     restrictions |-> <<>>, raw |-> <<>>, faqs |-> NoFaqs]

\* The place of a key in a map, 0 if it is no key of it.
PlaceOf(map, field, key) ==
    IF \E i \in 1..Len(map) : map[i][field] = key
    THEN CHOOSE i \in 1..Len(map) : map[i][field] = key
    ELSE 0

\* map[key] = entry: a new key goes last, a known key keeps its place.
Put(map, field, entry) ==
    LET at == PlaceOf(map, field, entry[field])
    IN  IF at = 0 THEN Append(map, entry) ELSE [map EXCEPT ![at] = entry]

(***************************************************************************)
(* extractEquipmentSpecs                                                   *)
(***************************************************************************)
\* A token the character class [A-Za-z0-9\s&\-] runs through.
NameClass(t) == t \notin {FullStop, PriceToken} \cup SpecTokens

\* The last token of the run of NameClass tokens that starts at i.
RECURSIVE RunEnd(_, _)
RunEnd(text, i) ==
    IF i < Len(text) /\ NameClass(text[i + 1]) THEN RunEnd(text, i + 1) ELSE i

\* The first token of the run of NameClass tokens that ends at i.
RECURSIVE RunStart(_, _)
RunStart(text, i) ==
    IF i > 1 /\ NameClass(text[i - 1]) THEN RunStart(text, i - 1) ELSE i

\* Lines 87-91: the matches of /(\d+)\s+x\s+([A-Za-z0-9\s&\-]+).../g from
\* token i on.  The name group is greedy: it runs on over every following
\* word, number and "x" up to a character outside the class.  The optional
\* group (?:\s+\(([^)]+)\))? wants white space in front of its bracket, and
\* the name group has taken all of it: the group matches nothing and
\* match[3] is undefined, so that spec is ''.
RECURSIVE EquipmentMatches(_, _)
EquipmentMatches(text, i) ==
    IF i + 2 > Len(text) THEN <<>>
    ELSE IF text[i] \in Numerals /\ text[i + 1] = "x" /\ NameClass(text[i + 2])
    THEN LET last == RunEnd(text, i + 2)
         IN  <<[quantity |-> text[i], name |-> SubSeq(text, i + 2, last),
                spec |-> <<>>]>>
             \o EquipmentMatches(text, last + 1)
    ELSE EquipmentMatches(text, i + 1)

\* (mutant) a later sighting overwrites the quantity and adds its page again
RecordEquipmentLastWins(equipment, match, pageNum) ==
    LET at == PlaceOf(equipment, "name", match.name)
    IN  IF at = 0
        THEN Append(equipment, [name |-> match.name,
                                quantity |-> ParseInt(match.quantity),
                                specifications |-> match.spec,
                                pageReferences |-> <<pageNum>>])
        ELSE [equipment EXCEPT
                 ![at].quantity = ParseInt(match.quantity),
                 ![at].pageReferences = Append(@, pageNum)]

\* Lines 96-107: one match on page pageNum
RecordEquipment(equipment, match, pageNum) ==
    LET at == PlaceOf(equipment, "name", match.name)
    IN  IF at = 0
        THEN Append(equipment, [name |-> match.name,
                                quantity |-> ParseInt(match.quantity),
                                specifications |-> match.spec,
                                pageReferences |-> <<pageNum>>])
        ELSE IF \E k \in 1..Len(equipment[at].pageReferences) :
                    equipment[at].pageReferences[k] = pageNum
        THEN equipment
        ELSE [equipment EXCEPT
                 ![at].pageReferences = Append(@, pageNum)]

RECURSIVE RecordAllEquipment(_, _, _)
RecordAllEquipment(equipment, matches, pageNum) ==
    IF matches = <<>> THEN equipment
    ELSE RecordAllEquipment(RecordEquipment(equipment, Head(matches), pageNum),
                            Tail(matches), pageNum)

\* Lines 85-108
ExtractEquipmentSpecs(equipment, text, pageNum) ==
    RecordAllEquipment(equipment, EquipmentMatches(text, 1), pageNum)

(***************************************************************************)
(* extractPricingInfo                                                      *)
(***************************************************************************)
\* The places of the prices on the page from token i on, in order.
RECURSIVE PricePlaces(_, _)
PricePlaces(text, i) ==
    IF i > Len(text) THEN <<>>
    ELSE IF text[i] = PriceToken THEN <<i>> \o PricePlaces(text, i + 1)
    ELSE PricePlaces(text, i + 1)

\* contextBefore.split('.').pop().trim(): what follows the last full stop
LastLine(context) ==
    LET stops == {k \in 1..Len(context) : context[k] = FullStop}
    IN  IF stops = {} THEN context
        ELSE SubSeq(context,
                    (CHOOSE k \in stops : \A j \in stops : j <= k) + 1,
                    Len(context))

UnknownItem == <<"Unknown", "item">>

\* Lines 123-139, for the price at token k (the page is shorter than the
\* 50 characters of context)
PriceByContext(text, pageNum, k) ==
    LET contextBefore == SubSeq(text, 1, k - 1)
        lastLine == LastLine(contextBefore)
    IN  [item |-> IF lastLine # <<>> THEN lastLine ELSE UnknownItem,
         price |-> ParseInt(text[k]), pageReference |-> pageNum,
         context |-> contextBefore]

\* Lines 142-150, for the price at token k > 1: the label is the run of
\* class characters in front of the pound sign, trimmed; after a full stop
\* or another price that run is the single space, and the label is empty.
PriceByLabel(text, pageNum, k) ==
    [item |-> IF NameClass(text[k - 1])
              THEN SubSeq(text, RunStart(text, k - 1), k - 1)
              ELSE <<>>,
     price |-> ParseInt(text[k]), pageReference |-> pageNum,
     context |-> <<>>]

\* The assignments of the two loops, in order.
PriceAssignments(text, pageNum) ==
    LET places == PricePlaces(text, 1)
        labelled == PricePlaces(text, 2)
    IN  [i \in 1..Len(places) |-> PriceByContext(text, pageNum, places[i])]
        \o [i \in 1..Len(labelled) |-> PriceByLabel(text, pageNum, labelled[i])]

RECURSIVE PutAll(_, _, _)
PutAll(map, field, entries) ==
    IF entries = <<>> THEN map
    ELSE PutAll(Put(map, field, Head(entries)), field, Tail(entries))

\* Lines 115-151
ExtractPricingInfo(pricing, text, pageNum) ==
    PutAll(pricing, "item", PriceAssignments(text, pageNum))

(***************************************************************************)
(* extractRestrictions                                                     *)
(***************************************************************************)
\* Lines 160-163
restrictionKeywords ==
    <<(<<"maximum">>), (<<"minimum">>), (<<"limit">>), (<<"restriction">>),
      (<<"not", "allowed">>), (<<"prohibited">>), (<<"must">>),
      (<<"cannot">>), (<<"db", "limit">>), (<<"decibel">>)>>

\* text.split(/[.!?]+/), each part trimmed: empty parts are dropped, none
\* of them holds a keyword.
RECURSIVE Sentences(_)
Sentences(text) ==
    IF text = <<>> THEN <<>>
    ELSE IF Head(text) = FullStop THEN Sentences(Tail(text))
    ELSE LET stops == {k \in 1..Len(text) : text[k] = FullStop}
             stop == IF stops = {} THEN Len(text) + 1
                     ELSE CHOOSE k \in stops : \A j \in stops : k <= j
         IN  <<SubSeq(text, 1, stop - 1)>>
             \o Sentences(SubSeq(text, stop + 1, Len(text)))

\* restrictions[keyword].push(...) for each entry, the key made at need
PushAll(map, field, key, entries) ==
    LET at == PlaceOf(map, field, key)
    IN  IF entries = <<>> THEN map
        ELSE IF at = 0
        THEN Append(map, [x \in {field, "entries"} |->
                             IF x = field THEN key ELSE entries])
        ELSE [map EXCEPT ![at].entries = @ \o entries]

\* Lines 166-180, for one keyword
RestrictionsOf(text, pageNum, keyword) ==
    LET sentences == Sentences(text)
        Holds(sentence) == Includes(LowerText(sentence), keyword)
        held == SelectSeq(sentences, Holds)
    IN  IF Includes(LowerText(text), keyword)
        THEN [i \in 1..Len(held) |->
                 [description |-> held[i], pageReference |-> pageNum]]
        ELSE <<>>

RECURSIVE ExtractRestrictionsFrom(_, _, _, _)
ExtractRestrictionsFrom(restrictions, text, pageNum, k) ==
    IF k > Len(restrictionKeywords) THEN restrictions
    ELSE ExtractRestrictionsFrom(
             PushAll(restrictions, "keyword", restrictionKeywords[k],
                     RestrictionsOf(text, pageNum, restrictionKeywords[k])),
             text, pageNum, k + 1)

\* Lines 158-182
ExtractRestrictions(restrictions, text, pageNum) ==
    ExtractRestrictionsFrom(restrictions, text, pageNum, 1)

(***************************************************************************)
(* categorizeSectionContent                                                *)
(***************************************************************************)
\* Lines 6-14, in the order of Object.entries
CATEGORIES ==
    <<[category |-> "SOUND",
       keywords |-> <<(<<"sound">>), (<<"audio">>), (<<"speaker">>),
                      (<<"pa">>), (<<"microphone">>), (<<"mixer">>),
                      (<<"cdj">>), (<<"technics">>)>>],
      [category |-> "LIGHTING",
       keywords |-> <<(<<"lighting">>), (<<"light">>), (<<"strobe">>),
                      (<<"beam">>), (<<"led">>), (<<"rgb">>)>>],
      [category |-> "VIDEO",
       keywords |-> <<(<<"video">>), (<<"screen">>), (<<"projection">>),
                      (<<"projector">>), (<<"led", "screen">>)>>],
      [category |-> "STAGE",
       keywords |-> <<(<<"stage">>), (<<"dimensions">>), (<<"truss">>),
                      (<<"podium">>)>>],
      [category |-> "POWER",
       keywords |-> <<(<<"power">>), (<<"electricity">>), (<<"amp">>),
                      (<<"volt">>)>>],
      [category |-> "SPECIAL_FX",
       keywords |-> <<(<<"fx">>), (<<"effect">>), (<<"smoke">>),
                      (<<"pyro">>), (<<"confetti">>), (<<"co2">>)>>],
      [category |-> "RESTRICTIONS",
       keywords |-> <<(<<"restriction">>), (<<"limit">>), (<<"maximum">>),
                      (<<"minimum">>), (<<"db">>), (<<"decibel">>)>>]>>

\* Lines 194-195: the places of the keywords the text holds
KeywordsHeld(text, keywords) ==
    {k \in 1..Len(keywords) : Includes(LowerText(text), keywords[k])}

\* Lines 194-213, for one category: the page is its own single paragraph
PassagesOf(text, pageNum, keywords) ==
    LET held == KeywordsHeld(text, keywords)
    IN  IF held = {} THEN <<>>
        ELSE <<[content |-> text, pageReference |-> pageNum,
                keyword |-> keywords[CHOOSE k \in held :
                                       \A j \in held : k <= j]]>>

RECURSIVE CategorizeFrom(_, _, _, _)
CategorizeFrom(specifications, text, pageNum, c) ==
    IF c > Len(CATEGORIES) THEN specifications
    ELSE CategorizeFrom(
             PushAll(specifications, "category", CATEGORIES[c].category,
                     PassagesOf(text, pageNum, CATEGORIES[c].keywords)),
             text, pageNum, c + 1)

\* Lines 189-216
CategorizeSectionContent(specifications, text, pageNum) ==
    CategorizeFrom(specifications, text, pageNum, 1)

\* Lines 66-78
ProcessPageContent(kb, text, pageNum) ==
    [kb EXCEPT
       !.equipment = ExtractEquipmentSpecs(@, text, pageNum),
       !.pricing = ExtractPricingInfo(@, text, pageNum),
       !.restrictions = ExtractRestrictions(@, text, pageNum),
       !.specifications = CategorizeSectionContent(@, text, pageNum)]

(***************************************************************************)
(* organizeKnowledgeBase and generateFAQs                                  *)
(***************************************************************************)
\* (mutant) every passage is kept
KeepAllEntries(entries) == entries

\* Lines 224-232: the first passage of each content is kept
UniqueEntries(entries) ==
    LET First(i) == \A j \in 1..(i - 1) : entries[j].content # entries[i].content
        RECURSIVE From(_)
        From(i) == IF i > Len(entries) THEN <<>>
                   ELSE IF First(i) THEN <<entries[i]>> \o From(i + 1)
                   ELSE From(i + 1)
    IN  From(1)

\* Lines 248-254
EquipmentFaq(e) ==
    [question |-> <<"How", "many">> \o e.name
                  \o <<"does", "Studio", "338", "have", "?">>,
     answer |-> <<"Studio", "338", "has", ToString(e.quantity)>> \o e.name
                \o (IF e.specifications # <<>>
                    THEN <<"(">> \o e.specifications \o <<")">>
                    ELSE <<>>)
                \o <<".">>,
     category |-> "EQUIPMENT"]

\* Lines 257-265: price.toFixed(2) of a whole number of pounds
PricingFaq(p) ==
    [question |-> <<"How", "much", "does">> \o p.item
                  \o <<"cost", "to", "hire", "?">>,
     answer |-> <<"The", "cost", "for">> \o p.item
                \o <<"is", "£" \o ToString(p.price) \o ".00">>
                \o (IF p.context # <<>>
                    THEN <<"based", "on", "the", "following", "information:">>
                         \o p.context
                    ELSE <<>>)
                \o <<".">>,
     category |-> "PRICING"]

\* Lines 268-276
RestrictionFaq(keyword, entry) ==
    [question |-> <<"What", "are", "the", "restrictions", "regarding">>
                  \o keyword \o <<"?">>,
     answer |-> entry.description,
     category |-> "RESTRICTIONS"]

RECURSIVE Flatten(_)
Flatten(seqs) == IF seqs = <<>> THEN <<>> ELSE Head(seqs) \o Flatten(Tail(seqs))

\* (mutant) line 245 is gone: the new entries go behind the old ones
GenerateFAQsAppending(kb) ==
    LET Known(p) == p.item # UnknownItem
        priced == SelectSeq(kb.pricing, Known)
    IN  kb.faqs.list
        \o [i \in 1..Len(kb.equipment) |-> EquipmentFaq(kb.equipment[i])]
        \o [i \in 1..Len(priced) |-> PricingFaq(priced[i])]
        \o Flatten([i \in 1..Len(kb.restrictions) |->
              [j \in 1..Len(kb.restrictions[i].entries) |->
                  RestrictionFaq(kb.restrictions[i].keyword,
                                 kb.restrictions[i].entries[j])]])

\* Lines 244-277
GenerateFAQs(kb) ==
    LET Known(p) == p.item # UnknownItem
        priced == SelectSeq(kb.pricing, Known)
    IN  [i \in 1..Len(kb.equipment) |-> EquipmentFaq(kb.equipment[i])]
        \o [i \in 1..Len(priced) |-> PricingFaq(priced[i])]
        \o Flatten([i \in 1..Len(kb.restrictions) |->
              [j \in 1..Len(kb.restrictions[i].entries) |->
                  RestrictionFaq(kb.restrictions[i].keyword,
                                 kb.restrictions[i].entries[j])]])

\* Lines 221-239
OrganizeKnowledgeBase(kb) ==
    LET organized ==
          [kb EXCEPT !.specifications =
              [i \in 1..Len(@) |->
                  [@[i] EXCEPT !.entries = UniqueEntries(@)]]]
    IN  [organized EXCEPT
           !.faqs = [built |-> TRUE, list |-> GenerateFAQs(organized)]]

(***************************************************************************)
(* extractPdfContent                                                       *)
(***************************************************************************)
\* Lines 39-49: pages 1..read of the document, one after the other
RECURSIVE ReadPages(_, _, _, _)
ReadPages(kb, doc, pageNum, read) ==
    IF pageNum > read THEN kb
    ELSE ReadPages(
             ProcessPageContent(
                 [kb EXCEPT !.raw = Put(@, "page", [page |-> pageNum,
                                                    content |-> doc[pageNum]])],
                 doc[pageNum], pageNum),
             doc, pageNum + 1, read)

\* Lines 30-59.  read is the number of pages read before getDocument,
\* getPage or getTextContent rejects; all the pages are read when none
\* does, and only then is the knowledge base organized.  What is written
\* before a rejection stays.
ExtractPdfContent(kb, doc, read) ==
    IF read = Len(doc)
    THEN OrganizeKnowledgeBase(ReadPages(kb, doc, 1, read))
    ELSE ReadPages(kb, doc, 1, read)

(***************************************************************************)
(* searchKnowledgeBase                                                     *)
(***************************************************************************)
ErrorMarker == [type |-> "error"]

\* The questions put to the search.
Queries == {<<"widget">>, <<"maximum">>, <<"speaker">>, <<"2", "x">>, <<"zebra">>}

\* Line 285: the object is missing or has no key
KnowledgeBaseNotLoaded(kb) == DOMAIN kb = {}

\* Lines 292-343: the hits in the structured maps, source after source
StructuredHits(kb, queryLower) ==
    LET Named(e) == Includes(LowerText(e.name), queryLower)
        equipment == SelectSeq(kb.equipment, Named)
        Labelled(p) == Includes(LowerText(p.item), queryLower)
        pricing == SelectSeq(kb.pricing, Labelled)
        Worded(entry) == Includes(LowerText(entry.content), queryLower)
        Passages(s) ==
            LET hits == SelectSeq(s.entries, Worded)
            IN  [j \in 1..Len(hits) |->
                    [type |-> "specification", category |-> s.category,
                     content |-> hits[j].content,
                     page |-> hits[j].pageReference]]
        Restrictions(r) ==
            IF Includes(r.keyword, queryLower)
            THEN [j \in 1..Len(r.entries) |->
                    [type |-> "restriction", keyword |-> r.keyword,
                     description |-> r.entries[j].description,
                     page |-> r.entries[j].pageReference]]
            ELSE <<>>
    IN  [i \in 1..Len(equipment) |->
            [type |-> "equipment", name |-> equipment[i].name,
             quantity |-> equipment[i].quantity,
             specifications |-> equipment[i].specifications,
             pages |-> equipment[i].pageReferences]]
        \o [i \in 1..Len(pricing) |->
            [type |-> "pricing", item |-> pricing[i].item,
             price |-> pricing[i].price, page |-> pricing[i].pageReference]]
        \o Flatten([i \in 1..Len(kb.specifications) |->
                       Passages(kb.specifications[i])])
        \o Flatten([i \in 1..Len(kb.restrictions) |->
                       Restrictions(kb.restrictions[i])])

\* Lines 346-356
FaqHits(faqs, queryLower) ==
    LET Asked(faq) == \/ Includes(LowerText(faq.question), queryLower)
                      \/ Includes(LowerText(faq.answer), queryLower)
        hits == SelectSeq(faqs, Asked)
    IN  [i \in 1..Len(hits) |->
            [type |-> "faq", question |-> hits[i].question,
             answer |-> hits[i].answer, category |-> hits[i].category]]

\* Lines 359-375
RawHits(raw, queryLower) ==
    LET Worded(r) == Includes(LowerText(r.content), queryLower)
        hits == SelectSeq(raw, Worded)
    IN  [i \in 1..Len(hits) |->
            [type |-> "raw_text", page |-> hits[i].page,
             content |-> hits[i].content]]

\* (mutant) the test of line 359 is gone: the raw pages are always searched
SearchKnowledgeBaseRawToo(kb, query) ==
    LET queryLower == LowerText(query)
        structured == StructuredHits(kb, queryLower)
                      \o FaqHits(kb.faqs.list, queryLower)
    IN  IF KnowledgeBaseNotLoaded(kb)
        THEN [threw |-> FALSE, results |-> <<ErrorMarker>>]
        ELSE IF ~kb.faqs.built
        THEN [threw |-> TRUE, results |-> <<>>]
        ELSE [threw |-> FALSE,
              results |-> structured \o RawHits(kb.raw, queryLower)]

\* Lines 284-378.  knowledgeBase.faqs.forEach throws a TypeError while no
\* pass has reached generateFAQs.
SearchKnowledgeBase(kb, query) ==
    LET queryLower == LowerText(query)
        structured == StructuredHits(kb, queryLower)
                      \o FaqHits(kb.faqs.list, queryLower)
    IN  IF KnowledgeBaseNotLoaded(kb)
        THEN [threw |-> FALSE, results |-> <<ErrorMarker>>]
        ELSE IF ~kb.faqs.built
        THEN [threw |-> TRUE, results |-> <<>>]
        ELSE [threw |-> FALSE,
              results |-> IF structured = <<>>
                          THEN RawHits(kb.raw, queryLower)
                          ELSE structured]

(***************************************************************************)
(* The operations of the Document Indexer                                  *)
(***************************************************************************)
NoKbCall ==
    [op |-> "none", doc |-> <<>>, read |-> 0, before |-> EmptyKnowledgeBase,
     priorOp |-> "none", priorDoc |-> <<>>, priorRead |-> 0,
     query |-> <<>>, threw |-> FALSE, results |-> <<>>]

\* extractPdfContent(pdfUrl)
ExtractPdfContentCall ==
    /\ passes < MaxPasses
    /\ \E doc \in Docs :
       \E read \in 0..Len(doc) :
          /\ knowledgeBase' = ExtractPdfContent(knowledgeBase, doc, read)
          /\ kbCall' = [NoKbCall EXCEPT
                          !.op = "extractPdfContent", !.doc = doc,
                          !.read = read, !.before = knowledgeBase,
                          !.priorOp = kbCall.op, !.priorDoc = kbCall.doc,
                          !.priorRead = kbCall.read]
    /\ passes' = passes + 1
    /\ UNCHANGED <<regVars, calVars, lookVars, routerVars>>

\* searchKnowledgeBase(query)
SearchKnowledgeBaseCall ==
    /\ \E query \in Queries :
          LET out == SearchKnowledgeBase(knowledgeBase, query)
          IN  kbCall' = [NoKbCall EXCEPT
                           !.op = "searchKnowledgeBase", !.query = query,
                           !.threw = out.threw, !.results = out.results]
    /\ UNCHANGED <<knowledgeBase, passes, regVars, calVars, lookVars,
                   routerVars>>

KbInit ==
    /\ knowledgeBase = EmptyKnowledgeBase
    /\ passes = 0
    /\ kbCall = NoKbCall

KbAtRest == KbInit

IndexerNext == ExtractPdfContentCall \/ SearchKnowledgeBaseCall

(***************************************************************************)
(* The Query Router (localModel): initializeKnowledgeBase, answerQuestion.  *)
(* specManager is built with useApi: false.  An initializeKnowledgeBase    *)
(* call is taken in the steps its three awaits cut it into, so that two    *)
(* calls may overlap; each awaited operation takes effect when its promise *)
(* settles.  answerQuestion is one step.                                   *)
(***************************************************************************)
\* The components that call initializeKnowledgeBase (App's effect may run
\* twice).
Callers == {"mount", "remount"}

\* What the local file may hold, the pages the calendar fetch may bring and
\* the documents at /docs/technical-bible.pdf while the router runs.
RouterSources == {Catalog(1, 1), BareCatalog, UnparsableBody}
RouterPages == {<<>>, <<14>>}
RouterDocs == {<<PageStock[1]>>, <<PageStock[4]>>}

\* specifications.json: SOUND {DJ_EQUIPMENT, PA_SYSTEMS}, VIDEO {LED_SCREENS}
BibleCategories ==
    [present |-> TRUE,
     keys |-> <<(<<ArrayOf(<<Item("cdj-3000", 6, 2, NoNote,
                                  ArrayOf(<<Snapshot(1)>>))>>),
                   ArrayOf(<<>>)>>),
                (<<ArrayOf(<<Item("main-led-wall", 1, 2, NoNote,
                                  ArrayOf(<<Snapshot(1)>>))>>)>>)>>]

\* this.specs.categories of the catalog the registry holds
CategoriesOf(catalog) ==
    IF catalog.kind = "catalog" /\ catalog.hasMetadata
    THEN BibleCategories ELSE NoCategories

\* question.match(/(\d{4}-\d{2}-\d{2})|(\w+ \d{1,2}(st|nd|rd|th)?( \d{4})?)/i)
\* and standardizeDate on the match.  matched tells whether the pattern
\* matches; days are the values standardizeDate may return for the matched
\* text, NoDate being ''.  "CDJ 30" is no date format of the language: new
\* Date on it is implementation-defined, an Invalid Date in some engines
\* and the 30th of a month of 2001 in others.
Question(text, matched, days) == [text |-> text, matched |-> matched, days |-> days]

CdjQuestion ==
    Question(<<"How", "many", "Pioneer", "CDJ", "3000", "does", "Studio",
               "338", "have?">>, TRUE, {NoDate, 0 - 9000})

Questions ==
    {CdjQuestion,
     Question(<<"CDJ-3000">>, FALSE, {}),
     Question(<<"widget">>, FALSE, {}),
     Question(<<"2026-11-14">>, TRUE, {14})}

\* The text as one string, its words joined by single spaces.
RECURSIVE Join(_)
Join(text) ==
    IF text = <<>> THEN ""
    ELSE IF Len(text) = 1 THEN text[1]
    ELSE text[1] \o " " \o Join(Tail(text))

\* (mutant) the guard of line 433 is gone
NeverNotReady(initialized) == FALSE

\* Line 433
NotReady(initialized) == ~initialized

\* What fetchAllEvents may leave and return from the given caches.
FetchOutcomes(session, ls, t, td, shift) ==
    LET looked == CacheLookup(session, ls, t)
    IN  IF looked.hit THEN {looked.out}
        ELSE {FetchFresh(looked.out.session, looked.out.ls, t, td, shift,
                         FALSE, <<>>, FALSE)}
             \cup {FetchFresh(looked.out.session, looked.out.ls, t, td, shift,
                              TRUE, parsed, saveOk) :
                      parsed \in UNION {ParseCalendarEvents(page, td, shift) :
                                           page \in RouterPages},
                      saveOk \in BOOLEAN}

\* Lines 446-450: the block made of getEventForDate's result.  The result
\* objects of calendarFetcher's getEventForDate have the keys found, exact,
\* event, events, message and error.
CalendarBlocks(eventData) ==
    LET eventInfo == "eventInfo" \in DOMAIN eventData
        needsManagerCheck == /\ "needsManagerCheck" \in DOMAIN eventData
                             /\ eventData.needsManagerCheck
    IN  IF eventInfo /\ ~needsManagerCheck
        THEN <<[source |-> "calendar", about |-> "event"]>>
        ELSE IF needsManagerCheck
        THEN <<[source |-> "calendar", about |-> "manager check"]>>
        ELSE <<>>

\* Lines 460-466: the block of one search result, none for the other types
DocumentBlock(res) ==
    IF res.type \in {"faq", "equipment", "specification", "raw_text"}
    THEN <<[source |-> "document", about |-> res.type]>>
    ELSE <<>>

\* Lines 458-468
DocumentBlocks(results) ==
    IF results # <<>> /\ results[1].type # "error"
    THEN Flatten([i \in 1..(IF Len(results) < 2 THEN Len(results) ELSE 2) |->
                     DocumentBlock(results[i])])
    ELSE <<>>

\* Lines 472-475
SpecificationBlocks(got) ==
    IF got.found
    THEN <<[source |-> "specification", about |-> got.item.id]>>
    ELSE <<>>

NoRouterCall ==
    [op |-> "none", caller |-> "none", result |-> FALSE,
     question |-> Question(<<>>, FALSE, {}), kind |-> "none", blocks |-> <<>>,
     queried |-> {}, eventData |-> NoResult, pdfResults |-> <<>>,
     specItem |-> ItemNotFound]

\* Lines 437-483 for an initialized router: the answer to the question when
\* getEventForDate resolved to eventData (NoResult when no date was seen).
Compose(question, dated, eventData, kb, cats) ==
    LET searched == SearchKnowledgeBase(kb, question.text)
        got == GetItemById(cats, Join(LowerText(question.text)))
        blocks == (IF dated THEN CalendarBlocks(eventData) ELSE <<>>)
                  \o DocumentBlocks(searched.results)
                  \o SpecificationBlocks(got)
    IN  IF searched.threw
        THEN [NoRouterCall EXCEPT
                !.op = "answerQuestion", !.question = question,
                !.kind = "threw",
                !.queried = (IF dated THEN {"calendar"} ELSE {}) \cup {"document"},
                !.eventData = eventData]
        ELSE [NoRouterCall EXCEPT
                !.op = "answerQuestion", !.question = question,
                !.kind = IF blocks # <<>> THEN "blocks" ELSE "nothing",
                !.blocks = blocks,
                !.queried = (IF dated THEN {"calendar"} ELSE {})
                            \cup {"document", "registry"},
                !.eventData = eventData,
                !.pdfResults = searched.results,
                !.specItem = got]

\* Lines 432-484
AnswerQuestion ==
    \E question \in Questions :
        IF NotReady(isInitialized)
        THEN /\ routerCall' = [NoRouterCall EXCEPT
                                 !.op = "answerQuestion",
                                 !.question = question, !.kind = "setup"]
             /\ UNCHANGED <<isInitialized, initCalls, regVars, calVars,
                            lookVars, kbVars>>
        ELSE IF ~question.matched
        THEN /\ routerCall' = Compose(question, FALSE, NoResult,
                                      knowledgeBase, categories)
             /\ UNCHANGED <<isInitialized, initCalls, regVars, calVars,
                            lookVars, kbVars>>
        ELSE \E standardDate \in question.days :
                IF standardDate = NoDate
                THEN /\ routerCall' = Compose(question, TRUE, InvalidDateResult,
                                              knowledgeBase, categories)
                     /\ UNCHANGED <<isInitialized, initCalls, regVars, calVars,
                                    lookVars, kbVars>>
                ELSE \E out \in FetchOutcomes(inMemorySessionCache,
                                              lsCalendarCache, now, today,
                                              utcShift) :
                        /\ inMemorySessionCache' = out.session
                        /\ lsCalendarCache' = out.ls
                        /\ routerCall' =
                              Compose(question, TRUE,
                                      MatchEvents(out.returned, standardDate),
                                      knowledgeBase, categories)
                        /\ UNCHANGED <<isInitialized, initCalls, regVars, now,
                                       today, utcShift, dateCall, calPending,
                                       calCall, lookVars, kbVars>>

InitCallRecord(caller, result) ==
    [NoRouterCall EXCEPT !.op = "initializeKnowledgeBase", !.caller = caller,
                         !.result = result]

\* The call of the caller is at an await.
PendingCallRecord(caller) ==
    [NoRouterCall EXCEPT !.op = "initializeKnowledgeBase", !.caller = caller,
                         !.kind = "pending"]

\* Lines 399-404: the call starts; already initialized, it returns true.
InitializeKnowledgeBase(caller) ==
    /\ initCalls[caller] = "idle"
    /\ passes + Cardinality({c \in Callers : initCalls[c] # "idle"}) < MaxPasses
    /\ IF isInitialized
       THEN /\ routerCall' = InitCallRecord(caller, TRUE)
            /\ UNCHANGED initCalls
       ELSE /\ initCalls' = [initCalls EXCEPT ![caller] = "initialize"]
            /\ routerCall' = PendingCallRecord(caller)
    /\ UNCHANGED <<isInitialized, regVars, calVars, lookVars, kbVars>>

\* Line 404: await specManager.initialize().  It rejects when localStorage
\* cannot be read (getItem throws outside initialize's try); the catch of
\* lines 420-424 then ends the call.
SpecManagerInitialized(caller) ==
    /\ initCalls[caller] = "initialize"
    /\ \E readable \in BOOLEAN, netOk \in BOOLEAN, storageFails \in 0..1 :
          IF ~readable
          THEN /\ isInitialized' = FALSE
               /\ initCalls' = [initCalls EXCEPT ![caller] = "idle"]
               /\ routerCall' = InitCallRecord(caller, FALSE)
               /\ UNCHANGED <<regVars, categories>>
          ELSE LET ld == LoadFromStorage(specs, lastSyncTimestamp,
                                         lsSpecifications, lsLastSyncTimestamp)
                   out == SyncOutcome(useApi, ld.specs, ld.last, ld.lsSpecs,
                                      ld.lsTs, srcCatalog, srcVersionTs,
                                      TRUE, netOk, storageFails)
               IN  /\ specs' = out.specs
                   /\ lastSyncTimestamp' = out.last
                   /\ lsSpecifications' = out.lsSpecs
                   /\ lsLastSyncTimestamp' = out.lsTs
                   /\ categories' = CategoriesOf(out.specs)
                   /\ initCalls' = [initCalls EXCEPT ![caller] = "fetchAllEvents"]
                   /\ routerCall' = PendingCallRecord(caller)
                   /\ UNCHANGED <<isInitialized, useApi, srcCatalog,
                                  srcVersionTs, regCall, syncPending>>
    /\ UNCHANGED <<calVars, lookCall, kbVars>>

\* Line 408: await fetchAllEvents()
EventsFetched(caller) ==
    /\ initCalls[caller] = "fetchAllEvents"
    /\ \E out \in FetchOutcomes(inMemorySessionCache, lsCalendarCache, now,
                                today, utcShift) :
          /\ inMemorySessionCache' = out.session
          /\ lsCalendarCache' = out.ls
    /\ initCalls' = [initCalls EXCEPT ![caller] = "extractPdfContent"]
    /\ routerCall' = PendingCallRecord(caller)
    /\ UNCHANGED <<isInitialized, regVars, now, today, utcShift, dateCall,
                   calPending, calCall, lookVars, kbVars>>

\* Lines 414-419: await extractPdfContent(...), which resolves to null
\* instead of rejecting; then isInitialized = true.
PdfExtracted(caller) ==
    /\ initCalls[caller] = "extractPdfContent"
    /\ \E doc \in RouterDocs :
       \E read \in 0..Len(doc) :
          knowledgeBase' = ExtractPdfContent(knowledgeBase, doc, read)
    /\ passes' = passes + 1
    /\ isInitialized' = TRUE
    /\ initCalls' = [initCalls EXCEPT ![caller] = "idle"]
    /\ routerCall' = InitCallRecord(caller, TRUE)
    /\ UNCHANGED <<kbCall, regVars, calVars, lookVars>>

RouterAtRest ==
    /\ isInitialized = FALSE
    /\ initCalls = [c \in Callers |-> "idle"]
    /\ routerCall = NoRouterCall

RouterNext ==
    \/ AnswerQuestion
    \/ \E caller \in Callers :
          \/ InitializeKnowledgeBase(caller)
          \/ SpecManagerInitialized(caller)
          \/ EventsFetched(caller)
          \/ PdfExtracted(caller)

(***************************************************************************)
(* The components are checked one at a time, the others at rest.           *)
(***************************************************************************)
RegAtRest ==
    /\ useApi = FALSE
    /\ specs = NullCatalog
    /\ lastSyncTimestamp = NoTimestamp
    /\ lsSpecifications = LsAbsent
    /\ lsLastSyncTimestamp = NoTimestamp
    /\ srcCatalog = NullCatalog
    /\ srcVersionTs = NoTimestamp
    /\ regCall = NoCall
    /\ syncPending = NoSyncPending

CalAtRest ==
    /\ now = TickMs
    /\ today = CHOOSE d \in Todays : \A e \in Todays : d <= e
    /\ utcShift = 0
    /\ inMemorySessionCache = EmptySessionCache
    /\ lsCalendarCache = LsAbsent
    /\ calCall = NoCalCall
    /\ dateCall = NoDateCall
    /\ calPending = NoPending

RegistryInit == RegInit /\ CalAtRest /\ LookAtRest /\ KbAtRest /\ RouterAtRest

CalendarInit == CalInit /\ RegAtRest /\ LookAtRest /\ KbAtRest /\ RouterAtRest

LookupInit == LookInit /\ RegAtRest /\ CalAtRest /\ KbAtRest /\ RouterAtRest

RegistrySpec == RegistryInit /\ [][RegistryNext]_vars

\* The registry in API mode, its calls overlapping.
SyncOverlapInit == RegistryInit /\ useApi
SyncOverlapSpec == SyncOverlapInit /\ [][SyncOverlapNext]_vars

CalendarSpec == CalendarInit /\ [][CalendarNext]_vars

OverlapSpec == CalendarInit /\ [][OverlapNext]_vars

LookupSpec == LookupInit /\ [][LookupNext]_vars

IndexerInit == KbInit /\ RegAtRest /\ CalAtRest /\ LookAtRest /\ RouterAtRest
IndexerSpec == IndexerInit /\ [][IndexerNext]_vars

RouterInit ==
    /\ useApi = FALSE
    /\ specs = NullCatalog
    /\ lastSyncTimestamp = NoTimestamp
    /\ lsSpecifications = LsAbsent
    /\ lsLastSyncTimestamp = NoTimestamp
    /\ srcCatalog \in RouterSources
    /\ srcVersionTs = NoTimestamp
    /\ regCall = NoCall
    /\ syncPending = NoSyncPending
    /\ CalAtRest /\ LookAtRest /\ KbAtRest /\ RouterAtRest
RouterSpec == RouterInit /\ [][RouterNext]_vars

DateInit == CalAtRest /\ RegAtRest /\ LookAtRest /\ KbAtRest /\ RouterAtRest
DateSpec == DateInit /\ [][DateNext]_vars

(***************************************************************************)
(* Claims about the Specification Registry.                                *)
(***************************************************************************)
\* The timestamp the configured source offers: the version endpoint's in
\* API mode, the catalog's own metadata.lastUpdated in local-file mode.
CandidateTs ==
    IF useApi THEN srcVersionTs
    ELSE IF srcCatalog.kind = "catalog" /\ srcCatalog.hasMetadata
         THEN srcCatalog.lastUpdated
         ELSE NoTimestamp

\* metadata.version of a held catalog (0: none to read)
VersionOf(c) == IF c.kind = "catalog" /\ c.hasMetadata THEN c.version ELSE 0

\* A step that is a syncSpecifications() call directly after another one;
\* the source cannot have changed in between (a change clears regCall).
SecondSyncInARow ==
    regCall.op = "sync" /\ regCall'.op = "sync" /\ regCall'.nth = 2

\* C1 (as stated): if syncSpecifications() is called twice in succession with
\* the source's catalog and version timestamp unchanged in between, the
\* second call returns false and leaves the held catalog (by version) and the
\* remembered timestamp as the first call left them.
C1_SecondSyncReturnsFalse ==
    [][SecondSyncInARow =>
          /\ regCall'.result = FALSE
          /\ VersionOf(specs') = VersionOf(specs)
          /\ lastSyncTimestamp' = lastSyncTimestamp]_vars

\* C1 (amended): the same, provided the first call met no network failure
\* and the source's version timestamp is present (not empty).
C1_SecondSyncReturnsFalse_Amended ==
    [][(/\ SecondSyncInARow
        /\ regCall.failure # "network"
        /\ CandidateTs # NoTimestamp) =>
          /\ regCall'.result = FALSE
          /\ VersionOf(specs') = VersionOf(specs)
          /\ specs' = specs
          /\ lastSyncTimestamp' = lastSyncTimestamp]_vars

\* A first sync installed the catalog and the sync right after it reported
\* no update.
C1_Witness ==
    /\ regCall.op = "sync" /\ regCall.nth = 2
    /\ regCall.prevResult = TRUE
    /\ regCall.result = FALSE /\ regCall.failure = "none"
    /\ specs = srcCatalog
    /\ CandidateTs # NoTimestamp

\* The staleness rule of the specification, on the values the call saw.
UpdateNeeded ==
    \/ Falsy(specs)
    \/ lastSyncTimestamp = NoTimestamp
    \/ (CandidateTs > 0 /\ lastSyncTimestamp > 0 /\ CandidateTs > lastSyncTimestamp)

\* The source served a well-formed candidate to this call: no network error,
\* no unparsable or malformed body.
RetrievalSucceeded(call) ==
    call.failure \notin {"network", "unparsable", "malformed"}

\* C2: for a syncSpecifications() call whose source retrieval succeeds, the
\* call returns true and replaces the held catalog and the remembered
\* timestamp with the candidate's iff no catalog is held, or no timestamp is
\* remembered, or the candidate's timestamp is strictly newer; in every other
\* case it returns false and changes neither the held catalog, the
\* remembered timestamp nor the durable entries.
C2_StalenessRule ==
    [][(regCall'.op = "sync" /\ RetrievalSucceeded(regCall')) =>
          IF UpdateNeeded
          THEN /\ regCall'.result = TRUE
               /\ specs' = srcCatalog
               /\ lastSyncTimestamp' = CandidateTs
          ELSE /\ regCall'.result = FALSE
               /\ UNCHANGED <<specs, lastSyncTimestamp, lsSpecifications,
                              lsLastSyncTimestamp>>]_vars

\* C3: any failure raised during syncSpecifications() is caught: the call
\* returns false and the held catalog and the remembered timestamp are what
\* they were before the call.
C3_FailureLeavesHeldCatalog ==
    [][(regCall'.op = "sync" /\ regCall'.failure # "none") =>
          /\ regCall'.result = FALSE
          /\ specs' = specs
          /\ lastSyncTimestamp' = lastSyncTimestamp]_vars

(***************************************************************************)
(* Claims about the Calendar Store.                                        *)
(***************************************************************************)
\* calCall' records a fetchAllEvents() call made on the caches as they stand
\* (directly, or on behalf of getEventForDate).
FetchedFromHeldCaches ==
    /\ calCall'.op \in {"fetchAllEvents", "getEventForDate"}
    /\ calCall'.source # "none"

\* The call went to the network and the fetch failed.
NetworkFailed(call) == call.source \in {"stale", "fallback"}

\* C4: if the network fetch inside fetchAllEvents() fails while the
\* in-session cache holds at least one event, however old, the call returns
\* exactly the in-session events, the in-session cache is unchanged, and the
\* durable entry is what the cache lookup left (nothing is written to it).
C4_StaleSessionServedOnFailure ==
    [][(/\ FetchedFromHeldCaches
        /\ NetworkFailed(calCall')
        /\ Len(inMemorySessionCache.events) > 0) =>
          /\ calCall'.returned = inMemorySessionCache.events
          /\ inMemorySessionCache' = inMemorySessionCache
          /\ lsCalendarCache' \in {lsCalendarCache, LsAbsent}
          /\ lsCalendarCache' = GetCalendarCache(lsCalendarCache, now).ls]_vars

\* A failed fetch answered with in-session events that are past their
\* lifetime.
C4_Witness ==
    /\ calCall.op = "fetchAllEvents"
    /\ calCall.source = "stale"
    /\ calCall.returned = inMemorySessionCache.events
    /\ Len(calCall.returned) > 0
    /\ now - inMemorySessionCache.lastFetched >= SessionExpiryMs

\* The first Friday on or after day t
NextFriday(t) == CHOOSE d \in t..(t + 6) : Weekday(d) = Friday

\* Ten events flagged as fallback: for k = 1..5 a Friday and the Saturday
\* after it, in five consecutive weeks from the next Friday on.
IsFallbackSequence(evs, t) ==
    /\ Len(evs) = 2 * FallbackWeeks
    /\ \A i \in 1..Len(evs) : evs[i].isFallback
    /\ \A k \in 1..FallbackWeeks :
          /\ evs[2 * k - 1].date = NextFriday(t) + 7 * (k - 1)
          /\ Weekday(evs[2 * k - 1].date) = Friday
          /\ evs[2 * k].date = evs[2 * k - 1].date + 1

\* C5: if the network fetch inside fetchAllEvents() fails while the
\* in-session cache is empty, the call returns the fallback sequence (ten
\* events, five Friday/Saturday pairs in consecutive weeks starting at the
\* next Friday from today, all flagged fallback) and writes to neither cache.
C5_FallbackOnFailure ==
    [][(/\ FetchedFromHeldCaches
        /\ NetworkFailed(calCall')
        /\ Len(inMemorySessionCache.events) = 0) =>
          /\ IsFallbackSequence(calCall'.returned, today)
          /\ inMemorySessionCache' = inMemorySessionCache
          /\ lsCalendarCache' = GetCalendarCache(lsCalendarCache, now).ls]_vars

\* C6: whatever the durable entry (absent, valid, expired, corrupt), the
\* in-session cache, the network outcome and the page parsed, a completed
\* fetchAllEvents() call has returned a non-empty sequence.
C6_NeverEmpty ==
    (calCall.op # "none" /\ calCall.source # "none") =>
        Len(calCall.returned) > 0

\* A network fetch whose page held no event element was answered with the
\* fallback events.
C6_Witness ==
    /\ calCall.op = "fetchAllEvents"
    /\ calCall.source = "network"
    /\ calCall.returned[1].isFallback
    /\ inMemorySessionCache.events = calCall.returned

\* The durable entry is present and unexpired at time t.
DurableFresh(ls, t) ==
    ls.kind = "text" /\ ls.json /\ ~(t > ls.value.expiryTimestamp)

\* The in-session cache is present and unexpired at time t.
SessionFresh(session, t) ==
    /\ session.events # <<>>
    /\ session.lastFetched # NoFetchTime
    /\ t - session.lastFetched < SessionExpiryMs

\* C7: fetchAllEvents() asks the durable cache, then the in-session cache,
\* then the network: a present, unexpired durable entry is served in
\* preference to everything else; failing that a present, unexpired
\* in-session cache is served; the network is tried only when neither layer
\* is present and unexpired.
C7_LookupOrder ==
    [][FetchedFromHeldCaches =>
          LET durable == DurableFresh(lsCalendarCache, now)
              session == SessionFresh(inMemorySessionCache, now)
          IN  /\ durable =>
                    /\ calCall'.source = "durable"
                    /\ calCall'.returned = lsCalendarCache.value.events
              /\ (~durable /\ session) =>
                    /\ calCall'.source = "session"
                    /\ calCall'.returned = inMemorySessionCache.events
              /\ calCall'.source \in {"network", "stale", "fallback"} =>
                    ~durable /\ ~session]_vars

\* With no durable entry to serve, a call was answered from the in-session
\* cache.
C7_Witness ==
    /\ calCall.op = "fetchAllEvents"
    /\ calCall.source = "session"
    /\ lsCalendarCache = LsAbsent
    /\ calCall.returned = inMemorySessionCache.events

\* Some served event is dated d.
ServedOn(d) == \E i \in 1..Len(calCall.returned) : calCall.returned[i].date = d

\* The served events dated within DayRange days of d, in served order.
ServedWithin(d) ==
    LET InWindow(e) == e.date # NoDate /\ e.date \in (d - DayRange)..(d + DayRange)
    IN  SelectSeq(calCall.returned, InWindow)

\* C8: if the served events contain an event dated D, getEventForDate(D)
\* returns an exact match carrying an event dated D, also when other events
\* lie within three days of D.
C8_ExactMatchFirst ==
    (calCall.op = "getEventForDate" /\ ServedOn(calCall.query)) =>
        /\ calCall.result.found /\ calCall.result.exact
        /\ Len(calCall.result.events) = 1
        /\ calCall.result.events[1].date = calCall.query

\* An exact match was returned although another served event lay within the
\* window.
C8_Witness ==
    /\ calCall.op = "getEventForDate"
    /\ ServedOn(calCall.query)
    /\ calCall.result.exact
    /\ Len(ServedWithin(calCall.query)) > 1
    /\ \E i \in 1..Len(calCall.returned) : calCall.returned[i].date # calCall.query

\* C9: with no event dated exactly D, getEventForDate(D) returns a non-exact
\* match holding exactly the served events within three days of D (bounds
\* included, events without a date left out) if there is one, and otherwise
\* a not-found result with a message, which is not an error.
C9_NearbyOrNotFound ==
    (calCall.op = "getEventForDate" /\ ~ServedOn(calCall.query)) =>
        IF ServedWithin(calCall.query) # <<>>
        THEN /\ calCall.result.found /\ ~calCall.result.exact
             /\ calCall.result.events = ServedWithin(calCall.query)
             /\ ~calCall.result.error
        ELSE /\ ~calCall.result.found
             /\ calCall.result.events = <<>>
             /\ calCall.result.message # ""
             /\ ~calCall.result.error

\* A non-exact match with an event exactly three days off, while another
\* served event was left out of it.
C9_Witness ==
    /\ calCall.op = "getEventForDate"
    /\ calCall.result.found /\ ~calCall.result.exact
    /\ \E i \in 1..Len(calCall.result.events) :
          Abs(calCall.result.events[i].date - calCall.query) = DayRange
    /\ Len(calCall.result.events) < Len(calCall.returned)

\* C10: refreshEventCache() empties both cache layers before it fetches: it
\* always goes to the network and never answers from what was cached before
\* the call; if the fetch fails it returns the fallback events, and both
\* layers stay empty.
C10_RefreshBypassesCaches ==
    [][calCall'.op = "refreshEventCache" =>
          /\ calCall'.source \in {"network", "fallback"}
          /\ calCall'.source = "network" =>
                /\ calCall'.returned \in ParseResults[today, utcShift]
                /\ inMemorySessionCache' =
                       [events |-> calCall'.returned, lastFetched |-> now]
                /\ \/ lsCalendarCache' = LsAbsent
                   \/ /\ lsCalendarCache'.value.events = calCall'.returned
                      /\ lsCalendarCache'.value.fetchTimestamp = now
          /\ calCall'.source = "fallback" =>
                /\ calCall'.returned = GetFallbackEvents(today, utcShift)
                /\ inMemorySessionCache' = EmptySessionCache
                /\ lsCalendarCache' = LsAbsent]_vars

\* A refresh whose fetch failed: the fallback events, and nothing cached.
C10_Witness ==
    /\ calCall.op = "refreshEventCache"
    /\ calCall.source = "fallback"
    /\ calCall.returned = GetFallbackEvents(today, utcShift)
    /\ inMemorySessionCache = EmptySessionCache
    /\ lsCalendarCache = LsAbsent

(***************************************************************************)
(* Claims about the registry lookups.                                      *)
(***************************************************************************)
RECURSIVE Concatenation(_)
Concatenation(seqs) ==
    IF seqs = <<>> THEN <<>> ELSE Head(seqs) \o Concatenation(Tail(seqs))

\* Every item of the catalog: category by category, subcategory by
\* subcategory, in array order.
ItemsInScanOrder ==
    LET ItemsOf(sub) == IF sub.isArray THEN sub.elems ELSE <<>>
        OfCategory(cat) == Concatenation([s \in 1..Len(cat) |-> ItemsOf(cat[s])])
    IN  Concatenation([c \in 1..Len(categories.keys) |->
                          OfCategory(categories.keys[c])])

PlacesOf(id) ==
    {i \in 1..Len(ItemsInScanOrder) : ItemsInScanOrder[i].id = id}

\* The number of previousVersions of an item
PreviousCount(item) ==
    IF item.previousVersions.isArray THEN Len(item.previousVersions.elems) ELSE 0

SortedNewestFirst(h) ==
    \A i, j \in 1..Len(h) : i < j => h[i].lastUpdated >= h[j].lastUpdated

\* What C11 says of a completed getChangeHistory(id) call.
ChangeHistoryAsClaimed ==
    IF ~lookCall.found
    THEN lookCall.history = <<>>
    ELSE /\ Len(lookCall.history) = PreviousCount(lookCall.item) + 1
         /\ SortedNewestFirst(lookCall.history)
         /\ lookCall.history[1].id = lookCall.id
         /\ lookCall.history[1].changeNote = "Current version"

\* C11 (as stated): for an item with k previousVersions getChangeHistory(id)
\* returns k+1 records sorted descending by lastUpdated, the first being the
\* current-state record with the note "Current version"; for an unknown id
\* it returns the empty sequence.
C11_ChangeHistory ==
    lookCall.op = "getChangeHistory" => ChangeHistoryAsClaimed

\* The item is dated, no snapshot is dated after it, and it has no
\* changeNote field of its own.
WellFormedHistory(item) ==
    /\ item.lastUpdated # NoTimestamp
    /\ item.changeNote = NoNote
    /\ item.previousVersions.isArray =>
          \A i \in 1..Len(item.previousVersions.elems) :
              /\ item.previousVersions.elems[i].lastUpdated # NoTimestamp
              /\ item.previousVersions.elems[i].lastUpdated <= item.lastUpdated

\* C11 (amended): the same, for an item whose lastUpdated and whose
\* snapshots' lastUpdated are dates, none of the snapshots later than the
\* item, and which has no changeNote field of its own.
C11_ChangeHistory_Amended ==
    (/\ lookCall.op = "getChangeHistory"
     /\ lookCall.found => WellFormedHistory(lookCall.item)) =>
        ChangeHistoryAsClaimed

\* The history of an item with two snapshots stored oldest first: three
\* records, the current one in front.
C11_Witness ==
    /\ lookCall.op = "getChangeHistory"
    /\ lookCall.found
    /\ WellFormedHistory(lookCall.item)
    /\ lookCall.item.previousVersions = ArrayOf(<<Snapshot(1), Snapshot(2)>>)
    /\ Len(lookCall.history) = 3
    /\ lookCall.history[1].changeNote = "Current version"

\* C20: getItemById(id) returns the first item with that id in the order
\* category, subcategory, array position; it returns not-found when no item
\* has the id or no catalog is held; it never returns an item with another
\* id.
C20_FirstMatchInScanOrder ==
    lookCall.op = "getItemById" =>
        /\ IF categories.present /\ PlacesOf(lookCall.id) # {}
           THEN /\ lookCall.found
                /\ lookCall.item =
                      ItemsInScanOrder[CHOOSE i \in PlacesOf(lookCall.id) :
                                          \A j \in PlacesOf(lookCall.id) : i <= j]
           ELSE ~lookCall.found
        /\ lookCall.found => lookCall.item.id = lookCall.id

\* The id is held twice in one array, after an item with another id: the
\* earlier of the two was returned.
C20_Witness ==
    /\ lookCall.op = "getItemById"
    /\ lookCall.found
    /\ \E i, j \in PlacesOf(lookCall.id) :
          /\ i < j
          /\ ItemsInScanOrder[i] = lookCall.item
          /\ ItemsInScanOrder[j] # lookCall.item
    /\ ItemsInScanOrder[1].id # lookCall.id
    /\ categories.keys[1][1] = NotAnArray

(***************************************************************************)
(* Claims about the Document Indexer, checked under IndexerSpec            *)
(***************************************************************************)
CompletePass ==
    /\ kbCall.op = "extractPdfContent"
    /\ kbCall.read = Len(kbCall.doc)

\* Two extraction passes in a row that both ran to the end over the same
\* pages.
SecondPassOverSamePages ==
    /\ CompletePass
    /\ kbCall.priorOp = "extractPdfContent"
    /\ kbCall.priorDoc = kbCall.doc
    /\ kbCall.priorRead = Len(kbCall.priorDoc)

\* C16: searchKnowledgeBase(query), called while no extraction pass has
\* ever built the index, returns the error-marker result (a single entry
\* of type error) and does not throw.
C16_ErrorMarkerBeforeIndex ==
    (kbCall.op = "searchKnowledgeBase" /\ ~knowledgeBase.faqs.built)
        => /\ ~kbCall.threw
           /\ kbCall.results = <<ErrorMarker>>

EquipmentNames == {<<"Widget">>, <<"Gadget">>}

\* The text of page p of the document reads "<n> x <name>" somewhere.
PageLists(doc, p, n, name) == Includes(doc[p], <<n, "x">> \o name)

\* C17: for every page p whose text contains "<n> x WidgetName", after
\* the extraction pass the equipment map has the key WidgetName with
\* quantity n and with p among its page references.
C17_EquipmentRecorded ==
    CompletePass =>
        \A p \in 1..Len(kbCall.doc), n \in Numerals, name \in EquipmentNames :
            PageLists(kbCall.doc, p, n, name) =>
                \E i \in 1..Len(knowledgeBase.equipment) :
                    /\ knowledgeBase.equipment[i].name = name
                    /\ knowledgeBase.equipment[i].quantity = ParseInt(n)
                    /\ \E k \in 1..Len(knowledgeBase.equipment[i].pageReferences) :
                          knowledgeBase.equipment[i].pageReferences[k] = p

\* The passages of every category before organizeKnowledgeBase ran in the
\* last pass.
Unorganized ==
    ReadPages(kbCall.before, kbCall.doc, 1, kbCall.read).specifications

\* C18: a second extraction pass over the same pages leaves every category
\* with the passages it had after the first; after a pass has finished no
\* category holds two passages of the same text, and of the passages of
\* one text the earliest is the one kept.
C18_PassagesDeduplicated ==
    /\ SecondPassOverSamePages =>
          knowledgeBase.specifications = kbCall.before.specifications
    /\ CompletePass =>
          /\ Len(knowledgeBase.specifications) = Len(Unorganized)
          /\ \A c \in 1..Len(knowledgeBase.specifications) :
                LET kept == knowledgeBase.specifications[c].entries
                    all == Unorganized[c].entries
                IN  /\ \A i, j \in 1..Len(kept) :
                          kept[i].content = kept[j].content => i = j
                    /\ \A i \in 1..Len(all) :
                          \E k \in 1..Len(kept) :
                             /\ kept[k].content = all[i].content
                             /\ kept[k] = all[CHOOSE f \in 1..Len(all) :
                                   /\ all[f].content = all[i].content
                                   /\ \A g \in 1..(f - 1) :
                                         all[g].content # all[i].content]

\* A second pass over pages that brought passages, one text of which
\* stands on two pages.
C18_Witness ==
    /\ SecondPassOverSamePages
    /\ \E c \in 1..Len(Unorganized) :
          /\ Len(Unorganized[c].entries)
                > Len(knowledgeBase.specifications[c].entries)
          /\ Len(knowledgeBase.specifications[c].entries) > 0
    /\ Len(kbCall.doc) = 2

\* C19: a second extraction pass over the same pages leaves the raw page
\* map and the FAQ list as they were after the first.
C19_RawAndFaqIdempotent ==
    SecondPassOverSamePages =>
        /\ knowledgeBase.raw = kbCall.before.raw
        /\ knowledgeBase.faqs = kbCall.before.faqs

(***************************************************************************)
(* Claims about the Query Router, checked under RouterSpec                 *)
(***************************************************************************)
Answered == routerCall.op = "answerQuestion"

\* The equipment facts of the index that the question's words would hit.
MatchingEquipment(question) ==
    {i \in 1..Len(knowledgeBase.equipment) :
        Includes(LowerText(knowledgeBase.equipment[i].name),
                 LowerText(question.text))}

\* C12: with the router initialized, the registry holding cdj-3000 with
\* quantity 6 and no matching equipment fact in the document index, the
\* answer to "How many Pioneer CDJ 3000 does Studio 338 have?" is the
\* specification block of that item and nothing from the document search.
C12_IdentifierLookupAnswers ==
    (/\ Answered
     /\ routerCall.question = CdjQuestion
     /\ isInitialized
     /\ knowledgeBase.faqs.built
     /\ MatchingEquipment(CdjQuestion) = {}
     /\ GetItemById(categories, "cdj-3000").found
     /\ GetItemById(categories, "cdj-3000").item.quantity = 6)
        => /\ routerCall.kind = "blocks"
           /\ routerCall.blocks = <<[source |-> "specification",
                                     about |-> "cdj-3000"]>>

SourceRank(source) ==
    CASE source = "calendar" -> 1
      [] source = "document" -> 2
      [] source = "specification" -> 3

\* The sources that returned something for the question of the last call.
NonEmptySources ==
    (IF routerCall.eventData.found THEN {"calendar"} ELSE {})
    \cup (IF routerCall.pdfResults # <<>> THEN {"document"} ELSE {})
    \cup (IF routerCall.specItem.found THEN {"specification"} ELSE {})

\* C13: once initialized, answerQuestion returns the nothing-found message
\* exactly when the calendar lookup, the document search and the identifier
\* lookup all came back empty, and otherwise the blocks of every source
\* that did not, in the order calendar, document, specification.
C13_BlocksOfEveryNonEmptySource ==
    (Answered /\ routerCall.kind \in {"nothing", "blocks"})
        => /\ routerCall.kind = "nothing" <=> NonEmptySources = {}
           /\ {routerCall.blocks[i].source : i \in 1..Len(routerCall.blocks)}
                 = NonEmptySources
           /\ \A i, j \in 1..Len(routerCall.blocks) :
                 i < j => SourceRank(routerCall.blocks[i].source)
                             <= SourceRank(routerCall.blocks[j].source)

\* C14: an answerQuestion call made while the router is not initialized
\* returns the "still getting set up" message, without throwing and
\* without a query to the calendar, the document index or the registry,
\* whose states it leaves as they were.
C14_SetupMessageBeforeInit ==
    [][(routerCall'.op = "answerQuestion" /\ ~isInitialized)
          => /\ routerCall'.kind = "setup"
             /\ routerCall'.queried = {}
             /\ UNCHANGED <<regVars, calVars, lookVars, kbVars>>]_vars

\* The question that names a held item by its id is asked while one
\* initializeKnowledgeBase call is past the registry's sync and not done.
C14_Witness ==
    /\ Answered
    /\ routerCall.kind = "setup"
    /\ routerCall.question.text = <<"CDJ-3000">>
    /\ categories.present
    /\ \E c \in Callers : initCalls[c] = "extractPdfContent"

\* C15: in every state reached through initializeKnowledgeBase and
\* answerQuestion calls, answerQuestion resolves to a string and never
\* rejects or throws.
C15_AnswerNeverThrows ==
    Answered => routerCall.kind \in {"setup", "nothing", "blocks"}

(***************************************************************************)
(* Further claims about the Calendar Store, checked under CalendarSpec     *)
(***************************************************************************)
\* The durable entry holds the events with the fetch time t.
DurableHolds(ls, events, t) ==
    /\ ls.kind = "text"
    /\ ls.json
    /\ ls.value.events = events
    /\ ls.value.fetchTimestamp = t

\* C21: after a network fetch inside fetchAllEvents() has succeeded, the
\* durable entry and the in-session cache both hold exactly the newly
\* parsed events with the same fetch time, in place of what they held, and
\* those events are what the call returns.
C21_BothLayersReplaced ==
    [][calCall'.source = "network" =>
          /\ calCall'.returned \in ParseResults[today, utcShift]
          /\ inMemorySessionCache' =
                 [events |-> calCall'.returned, lastFetched |-> now]
          /\ DurableHolds(lsCalendarCache', calCall'.returned, now)]_vars

\* C21 (amended): the in-session cache always holds the new events; the
\* durable entry holds them with the same fetch time when its write went
\* through, and is absent when localStorage.setItem threw.
C21_BothLayersReplaced_Amended ==
    [][calCall'.source = "network" =>
          /\ calCall'.returned \in ParseResults[today, utcShift]
          /\ inMemorySessionCache' =
                 [events |-> calCall'.returned, lastFetched |-> now]
          /\ \/ DurableHolds(lsCalendarCache', calCall'.returned, now)
             \/ lsCalendarCache' = LsAbsent]_vars

\* A fetch made after the first entries had expired, whose events are in
\* both layers.
C21_Witness ==
    /\ calCall.op = "fetchAllEvents"
    /\ calCall.source = "network"
    /\ now > TickMs
    /\ inMemorySessionCache = [events |-> calCall.returned, lastFetched |-> now]
    /\ DurableHolds(lsCalendarCache, calCall.returned, now)
    /\ ~calCall.returned[1].isFallback

\* The durable entry is there and is unparsable or past its expiry at t.
DurableUnusable(ls, t) ==
    /\ ls.kind = "text"
    /\ \/ ~ls.json
       \/ t > ls.value.expiryTimestamp

\* C22: getCalendarCache() removes an entry that is unparsable or past its
\* expiry and returns absent; of a valid, unexpired entry it returns the
\* events and the fetch time and leaves the durable store as it is.  Seen
\* on the function and on the fetchAllEvents() calls that start with it.
C22_GetCalendarCache ==
    [][FetchedFromHeldCaches =>
          LET got == GetCalendarCache(lsCalendarCache, now)
          IN  /\ DurableUnusable(lsCalendarCache, now) =>
                    /\ ~got.found
                    /\ got.ls = LsAbsent
                    /\ calCall'.source # "durable"
                    /\ \/ lsCalendarCache' = LsAbsent
                       \/ DurableHolds(lsCalendarCache', calCall'.returned, now)
              /\ DurableFresh(lsCalendarCache, now) =>
                    /\ got.found
                    /\ got.cache = [events |-> lsCalendarCache.value.events,
                                    lastFetched |->
                                        lsCalendarCache.value.fetchTimestamp]
                    /\ got.ls = lsCalendarCache
                    /\ lsCalendarCache' = lsCalendarCache
                    /\ inMemorySessionCache' = got.cache]_vars

\* A call that found the durable entry past its expiry, removed it, and,
\* the network failing, served the in-session events.
C22_Witness ==
    /\ calCall.op = "fetchAllEvents"
    /\ calCall.source = "stale"
    /\ lsCalendarCache = LsAbsent
    /\ now - inMemorySessionCache.lastFetched > CACHE_EXPIRY_MS

(***************************************************************************)
(* Further claims about the Specification Registry, checked under          *)
(* RegistrySpec.                                                           *)
(***************************************************************************)
\* The registry and the durable keys after a call, with what it reported.
LeftByCall ==
    SyncResult(specs', lastSyncTimestamp', lsSpecifications',
               lsLastSyncTimestamp', regCall'.result, regCall'.failure,
               regCall'.catalogRequested)

\* The step leaves what one syncSpecifications() call can leave and report
\* when it starts with catalog h and timestamp l held and ls, lt under the
\* durable keys.
LeftByOneSyncFrom(h, l, ls, lt) ==
    \E netVersionOk \in BOOLEAN, netOk \in BOOLEAN, storageFails \in 0..2 :
        LeftByCall = SyncOutcome(useApi, h, l, ls, lt, srcCatalog,
                                 srcVersionTs, netVersionOk, netOk,
                                 storageFails)

\* C23: initialize() completes whatever the durable catalog blob is.  On a
\* blob that does not parse, both durable keys are removed and neither a
\* catalog nor a timestamp is taken from the cache, so that the registry is
\* left as one syncSpecifications() call leaves it when started on the
\* catalog held before and on empty durable keys.  On an absent blob it is
\* left as one sync started on the state as it stood leaves it, and on a
\* valid blob as one sync started on the cached catalog and timestamp.
C23_InitializeSurvivesCorruptCache ==
    [][regCall'.op = "initialize" =>
          /\ lsSpecifications = LsCorrupt =>
                LeftByOneSyncFrom(specs, lastSyncTimestamp,
                                  LsAbsent, NoTimestamp)
          /\ lsSpecifications = LsAbsent =>
                LeftByOneSyncFrom(specs, lastSyncTimestamp,
                                  lsSpecifications, lsLastSyncTimestamp)
          /\ (lsSpecifications.kind = "text" /\ lsSpecifications.json) =>
                LeftByOneSyncFrom(lsSpecifications.value,
                                  lsLastSyncTimestamp,
                                  lsSpecifications, lsLastSyncTimestamp)]_vars

\* initialize() found a corrupt blob on a fresh registry; its sync failed on
\* the network, both durable keys are gone and no catalog is held.
C23_Witness ==
    /\ regCall.op = "initialize" /\ regCall.cache = "corrupt"
    /\ regCall.failure = "network"
    /\ lsSpecifications = LsAbsent
    /\ lsLastSyncTimestamp = NoTimestamp
    /\ Falsy(specs)

\* C24: replacement of the catalog is atomic.  After every
\* syncSpecifications() call, whatever its outcome, the held catalog and the
\* remembered timestamp belong to the same candidate (both as they were, or
\* both the source's), and whenever a catalog is held the durable catalog
\* blob and the durable sync timestamp equal the held catalog and the
\* remembered timestamp.
C24_ReplacementIsAtomic ==
    [][regCall'.op = "sync" =>
          /\ \/ /\ specs' = specs
                /\ lastSyncTimestamp' = lastSyncTimestamp
             \/ /\ specs' = srcCatalog
                /\ lastSyncTimestamp' = CandidateTs
          /\ ~Falsy(specs') =>
                /\ lsSpecifications' = Stringify(specs')
                /\ lsLastSyncTimestamp' = lastSyncTimestamp']_vars

\* The staleness rule of the specification in API mode, for a sync that
\* starts with catalog h held and timestamp l remembered.
ApiUpdateNeeded(h, l) ==
    \/ Falsy(h)
    \/ l = NoTimestamp
    \/ (srcVersionTs > 0 /\ l > 0 /\ srcVersionTs > l)

\* The catalog and timestamp the sync of this step started with: the held
\* ones, or for initialize() the ones it loaded from the durable keys.
SyncStartedWith ==
    IF regCall'.op = "initialize"
    THEN LoadFromStorage(specs, lastSyncTimestamp, lsSpecifications,
                         lsLastSyncTimestamp)
    ELSE [specs |-> specs, last |-> lastSyncTimestamp]

\* C25: in API mode a syncSpecifications() call requests the full catalog
\* only when the staleness rule, applied to the version endpoint's timestamp,
\* says an update is needed, and only after the version check has answered;
\* when no update is needed the full-catalog endpoint is not requested and
\* the registry and the durable keys are as the sync found them.
C25_VersionCheckBeforeDownload ==
    [][(useApi /\ regCall'.op \in {"sync", "initialize"}) =>
          LET needed == ApiUpdateNeeded(SyncStartedWith.specs,
                                        SyncStartedWith.last)
          IN  /\ regCall'.catalogRequested => needed
              /\ ~needed =>
                    /\ ~regCall'.catalogRequested
                    /\ regCall'.result = FALSE
                    /\ specs' = SyncStartedWith.specs
                    /\ lastSyncTimestamp' = SyncStartedWith.last
              /\ (needed /\ regCall'.failure # "network") =>
                    regCall'.catalogRequested]_vars

\* An API-mode sync found the held catalog current: the version check
\* answered, no update was needed, and the catalog was not requested.
C25_Witness ==
    /\ useApi
    /\ regCall.op = "sync" /\ regCall.nth = 2
    /\ regCall.prevResult = TRUE
    /\ regCall.failure = "none" /\ regCall.result = FALSE
    /\ ~regCall.catalogRequested
    /\ ~Falsy(specs)
    /\ lastSyncTimestamp = srcVersionTs

(***************************************************************************)
(* Further claims about the Query Router, checked under RouterSpec         *)
(***************************************************************************)
\* C26: when the router is initialized and the question contains a date for
\* which getEventForDate returns a found result (an exact match or events
\* nearby), the answer contains a calendar block.
C26_FoundDateGivesCalendarBlock ==
    (/\ Answered
     /\ isInitialized
     /\ routerCall.kind \in {"nothing", "blocks"}
     /\ routerCall.question.matched
     /\ routerCall.eventData.found)
        => \E i \in 1..Len(routerCall.blocks) :
              routerCall.blocks[i].source = "calendar"

\* Generated events, told by the isFallback mark that only getFallbackEvents
\* sets (parsed events are never mixed with them).
AreFallbackEvents(events) == events # <<>> /\ events[1].isFallback

\* The step is a network fetch whose page yielded no event: the call
\* returns the generated fallback events.
FetchedFallbackFromNetwork ==
    /\ calCall'.source = "network"
    /\ AreFallbackEvents(calCall'.returned)

\* The durable entry holds the fallback events, present and unexpired.
DurableHoldsFallback ==
    /\ DurableFresh(lsCalendarCache, now)
    /\ AreFallbackEvents(lsCalendarCache.value.events)

\* The in-session cache holds the fallback events, present and unexpired.
SessionHoldsFallback ==
    /\ SessionFresh(inMemorySessionCache, now)
    /\ AreFallbackEvents(inMemorySessionCache.events)

\* Later calls are served the held fallback events without a network fetch.
FallbackServedFromCache ==
    (FetchedFromHeldCaches /\ (DurableHoldsFallback \/ SessionHoldsFallback)) =>
        /\ calCall'.returned = IF DurableHoldsFallback
                               THEN lsCalendarCache.value.events
                               ELSE inMemorySessionCache.events
        /\ SessionHoldsFallback =>
              calCall'.returned = inMemorySessionCache.events
        /\ calCall'.source \in {"durable", "session"}

\* C27 (as stated): when the network fetch succeeds but zero events parse,
\* the returned fallback sequence is persisted to both cache layers, the
\* in-session cache and the durable entry, with the fetch time; later
\* fetchAllEvents() calls within the TTL return the same fallback events
\* without a network fetch.
C27_FallbackPersisted ==
    [][/\ FetchedFallbackFromNetwork =>
             /\ calCall'.returned = GetFallbackEvents(today, utcShift)
             /\ inMemorySessionCache' =
                   [events |-> calCall'.returned, lastFetched |-> now]
             /\ DurableHolds(lsCalendarCache', calCall'.returned, now)
       /\ FallbackServedFromCache]_vars

\* C27 (amended): the fallback sequence is held by the in-session cache, and
\* by the durable entry unless its write failed (the entry is then absent);
\* while either layer holds it unexpired, later fetchAllEvents() calls
\* return the same fallback events without a network fetch.
C27_FallbackPersisted_Amended ==
    [][/\ FetchedFallbackFromNetwork =>
             /\ calCall'.returned = GetFallbackEvents(today, utcShift)
             /\ inMemorySessionCache' =
                   [events |-> calCall'.returned, lastFetched |-> now]
             /\ \/ DurableHolds(lsCalendarCache', calCall'.returned, now)
                \/ lsCalendarCache' = LsAbsent
       /\ FallbackServedFromCache]_vars

\* A later call in the same session is served the fallback events from the
\* in-session cache, the durable write of the fetch having failed.
C27_Witness ==
    /\ calCall.op = "fetchAllEvents"
    /\ calCall.source = "session"
    /\ calCall.returned = GetFallbackEvents(today, utcShift)
    /\ inMemorySessionCache =
          [events |-> GetFallbackEvents(today, utcShift), lastFetched |-> now]
    /\ lsCalendarCache = LsAbsent

\* C28: getEventForDate(text) on a text that standardizeDate cannot
\* normalize returns the invalid-format result without calling
\* fetchAllEvents(): nothing is fetched from the network or served from a
\* cache, and the in-session cache and the durable entry are neither read
\* nor changed (an expired or unparsable durable entry stays in place).
C28_InvalidTextTouchesNothing ==
    [][(calCall'.op = "getEventForDate" /\ calCall'.query = NoDate) =>
          /\ calCall'.result = InvalidDateResult
          /\ calCall'.source = "none"
          /\ calCall'.returned = <<>>
          /\ UNCHANGED <<inMemorySessionCache, lsCalendarCache>>]_vars

\* The invalid-format result was returned while the durable entry was past
\* its expiry; the entry is still there.
C28_Witness ==
    /\ calCall.op = "getEventForDate"
    /\ calCall.result = InvalidDateResult
    /\ calCall.source = "none"
    /\ DurableUnusable(lsCalendarCache, now)
    /\ inMemorySessionCache.events # <<>>

(***************************************************************************)
(* Further claims about the Document Indexer, checked under IndexerSpec    *)
(***************************************************************************)
\* s is the list t or a list that t begins.
IsPrefix(s, t) == Len(s) <= Len(t) /\ SubSeq(t, 1, Len(s)) = s

NoRepeat(s) == \A i, j \in 1..Len(s) : s[i] = s[j] => i = j

\* C29: across any sequence of pages and passes, the quantity and the
\* specification text of an equipment fact stay what its first sighting
\* made them; its list of page references is never empty, only grows (what
\* it held stays, in place) and holds no page number twice.
C29_FirstSightingFixesFact ==
    [][kbCall'.op = "extractPdfContent" =>
          /\ Len(knowledgeBase'.equipment) >= Len(knowledgeBase.equipment)
          /\ \A i \in 1..Len(knowledgeBase.equipment) :
                LET before == knowledgeBase.equipment[i]
                    after == knowledgeBase'.equipment[i]
                IN  /\ after.name = before.name
                    /\ after.quantity = before.quantity
                    /\ after.specifications = before.specifications
                    /\ IsPrefix(before.pageReferences, after.pageReferences)
          /\ \A i \in 1..Len(knowledgeBase'.equipment) :
                /\ knowledgeBase'.equipment[i].pageReferences # <<>>
                /\ NoRepeat(knowledgeBase'.equipment[i].pageReferences)]_vars

\* Widget was listed as 2 on page 1 and as 3 on page 2 of a document read in
\* a second pass: the fact keeps the quantity of the first sighting and
\* refers to both pages.
C29_Witness ==
    /\ CompletePass
    /\ passes = 2
    /\ kbCall.doc = <<PageStock[1], PageStock[2]>>
    /\ \E i \in 1..Len(knowledgeBase.equipment) :
          /\ knowledgeBase.equipment[i].name = <<"Widget">>
          /\ knowledgeBase.equipment[i].quantity = 2
          /\ knowledgeBase.equipment[i].pageReferences = <<1, 2>>

\* C30: the equipment name is a case-insensitive key: sightings whose names
\* differ only in letter case are one equipment fact, so no two facts of the
\* equipment map have names that are equal once lower-cased.
C30_NameKeyIgnoresCase ==
    \A i, j \in 1..Len(knowledgeBase.equipment) :
        LowerText(knowledgeBase.equipment[i].name)
            = LowerText(knowledgeBase.equipment[j].name) => i = j

\* The number of restriction occurrences under the keywords from place i on.
RECURSIVE RestrictionOccurrences(_, _)
RestrictionOccurrences(restrictions, i) ==
    IF i > Len(restrictions) THEN 0
    ELSE Len(restrictions[i].entries)
         + RestrictionOccurrences(restrictions, i + 1)

\* The price facts whose label is not "Unknown item".
NamedPrices ==
    {i \in 1..Len(knowledgeBase.pricing) :
        knowledgeBase.pricing[i].item # UnknownItem}

\* The entries of the FAQ list that belong to category c.
FaqsOf(c) ==
    {i \in 1..Len(knowledgeBase.faqs.list) :
        knowledgeBase.faqs.list[i].category = c}

\* C31: after every completed extraction pass the FAQ list holds one entry
\* per equipment fact, one per price fact whose label is not "Unknown item"
\* and one per restriction occurrence, and nothing else (nothing of an
\* earlier pass is left): its length is the sum of the three counts.
C31_FaqListRebuilt ==
    CompletePass =>
        /\ knowledgeBase.faqs.built
        /\ Cardinality(FaqsOf("EQUIPMENT")) = Len(knowledgeBase.equipment)
        /\ Cardinality(FaqsOf("PRICING")) = Cardinality(NamedPrices)
        /\ Cardinality(FaqsOf("RESTRICTIONS"))
              = RestrictionOccurrences(knowledgeBase.restrictions, 1)
        /\ Len(knowledgeBase.faqs.list)
              = Len(knowledgeBase.equipment) + Cardinality(NamedPrices)
                + RestrictionOccurrences(knowledgeBase.restrictions, 1)
        /\ \A i \in 1..Len(knowledgeBase.equipment) :
              knowledgeBase.faqs.list[i] = EquipmentFaq(knowledgeBase.equipment[i])

\* A second pass has completed on an index that holds an equipment fact of
\* the first pass and a price under "Unknown item".
C31_Witness ==
    /\ CompletePass
    /\ passes = 2
    /\ kbCall.before.faqs.list # <<>>
    /\ Len(knowledgeBase.equipment) > 0
    /\ \E i \in 1..Len(knowledgeBase.pricing) :
          knowledgeBase.pricing[i].item = UnknownItem
    /\ Cardinality(NamedPrices) > 0

\* The place of a result type in the order of the structured sources.
TypeRank(type) ==
    CASE type = "equipment" -> 1
      [] type = "pricing" -> 2
      [] type = "specification" -> 3
      [] type = "restriction" -> 4
      [] type = "faq" -> 5
      [] OTHER -> 6

\* C32: a result of searchKnowledgeBase(query) holds raw-page hits only when
\* no structured source has a hit: raw_text hits are never mixed with
\* equipment, pricing, specification, restriction or FAQ hits, whenever a
\* structured source has a hit the result is made of structured hits, and
\* these stand in the order equipment, pricing, passages, restrictions, FAQ.
C32_RawHitsOnlyAlone ==
    (kbCall.op = "searchKnowledgeBase" /\ ~kbCall.threw) =>
        LET results == kbCall.results
            raw == {i \in 1..Len(results) : results[i].type = "raw_text"}
            structured ==
                StructuredHits(knowledgeBase, LowerText(kbCall.query))
                \o FaqHits(knowledgeBase.faqs.list, LowerText(kbCall.query))
        IN  /\ raw = {} \/ raw = 1..Len(results)
            /\ raw # {} => structured = <<>>
            /\ structured # <<>> => results = structured
            /\ \A i, j \in 1..Len(results) :
                  i < j => TypeRank(results[i].type) <= TypeRank(results[j].type)

\* A query that no fact and no question holds was answered from the raw
\* page, while the index has an equipment fact and its question.
C32_Witness ==
    /\ kbCall.op = "searchKnowledgeBase" /\ ~kbCall.threw
    /\ kbCall.results # <<>>
    /\ \A i \in 1..Len(kbCall.results) : kbCall.results[i].type = "raw_text"
    /\ knowledgeBase.equipment # <<>>
    /\ knowledgeBase.faqs.list # <<>>

(***************************************************************************)
(* Claims about standardizeDate, checked under DateSpec                    *)
(***************************************************************************)
\* C33: for a slash- or dash-delimited text with a four-digit year in third
\* place, standardizeDate returns the date of the day/month/year reading
\* whenever that reading is a date, and the date of the month/day/year
\* reading only when it is not; a text already in the form YYYY-MM-DD is
\* returned unchanged.
C33_UkOrderFirst ==
    dateCall.op = "standardizeDate" =>
        LET text == dateCall.text
        IN  /\ text.kind = "iso" => dateCall.result = text.day
            /\ text.kind = "slashed" =>
                  dateCall.result =
                      IF IsValidDate(text.second, text.first)
                      THEN DayNumber(text.second, text.first)
                      ELSE IF IsValidDate(text.first, text.second)
                      THEN DayNumber(text.first, text.second)
                      ELSE NoDate
(***************************************************************************)
(* Claims about overlapping initializeKnowledgeBase() calls, checked under *)
(* RouterSpec                                                              *)
(***************************************************************************)
\* C34: over any sequence of initializeKnowledgeBase() calls, overlapping
\* ones included, the document index receives at most one extraction pass.
C34_AtMostOneExtractionPass ==
    passes <= 1

SessionAge == now - inMemorySessionCache.lastFetched

\* C37: events that fetchAllEvents() returns from a cache layer without
\* attempting a network fetch were fetched no more than the TTL before the
\* call; held events older than the TTL are returned only after a network
\* fetch was attempted and failed.
C37_CachedEventsWithinTtl ==
    /\ calCall.source \in {"durable", "session"} =>
          /\ calCall.returned = inMemorySessionCache.events
          /\ SessionAge <= CACHE_EXPIRY_MS
    /\ (/\ calCall.source # "none"
        /\ calCall.returned = inMemorySessionCache.events
        /\ SessionAge > CACHE_EXPIRY_MS) => calCall.source = "stale"

\* A call is served from the durable entry exactly one TTL after the fetch.
C37_Witness ==
    /\ calCall.op = "fetchAllEvents"
    /\ calCall.source = "durable"
    /\ SessionAge = CACHE_EXPIRY_MS

(***************************************************************************)
(* Claims about overlapping calendar calls, checked under OverlapSpec      *)
(***************************************************************************)
DurableReadable ==
    /\ lsCalendarCache.kind = "text"
    /\ lsCalendarCache.json

\* C36: after a completed fetchAllEvents() or refreshEventCache() call, in
\* any interleaving of such calls, a readable durable entry and the
\* in-session cache hold the same events and the same fetch timestamp.
C36_LayersAgree ==
    (calCall.op \in {"fetchAllEvents", "refreshEventCache"} /\ DurableReadable)
        => inMemorySessionCache =
               [events |-> lsCalendarCache.value.events,
                lastFetched |-> lsCalendarCache.value.fetchTimestamp]
(***************************************************************************)
(* Claims about overlapping registry calls, checked under SyncOverlapSpec  *)
(***************************************************************************)
\* C38: over any sequence of syncSpecifications() calls on one registry,
\* overlapping calls in API mode included, once a catalog is held the
\* remembered timestamp changes only to a strictly newer one.
C38_TimestampNeverOlder ==
    [][(~Falsy(specs) /\ lastSyncTimestamp' # lastSyncTimestamp)
          => lastSyncTimestamp' > lastSyncTimestamp]_vars
(***************************************************************************)
(* The round trip through localStorage, checked under RegistrySpec         *)
(***************************************************************************)
\* What a syncSpecifications() call that returned true has left in
\* localStorage, the source being what it was then: the catalog served, and
\* the text of the timestamp it came with.
PersistedBySync ==
    /\ srcCatalog.kind = "catalog"
    /\ srcCatalog.hasMetadata
    /\ lsSpecifications = Stringify(srcCatalog)
    /\ lsLastSyncTimestamp =
           StoredTimestamp(IF useApi THEN srcVersionTs
                                     ELSE srcCatalog.lastUpdated)

\* A registry as its constructor leaves it.
FreshRegistry ==
    /\ Falsy(specs)
    /\ lastSyncTimestamp = NoTimestamp

\* C39: after a syncSpecifications() call that returned true, initialize()
\* of a freshly constructed registry, run against the same durable cache and
\* an unchanged source, ends up holding the persisted catalog with the
\* persisted timestamp, leaves the durable cache as it is, and its sync step
\* reports no update.
C39_RoundTripAcrossRestart ==
    [][(FreshRegistry /\ PersistedBySync /\ regCall'.op = "initialize")
          => /\ specs' = lsSpecifications.value
             /\ lastSyncTimestamp' = lsLastSyncTimestamp
             /\ ~regCall'.result
             /\ lsSpecifications' = lsSpecifications
             /\ lsLastSyncTimestamp' = lsLastSyncTimestamp]_vars

\* initialize() has found the copy a sync persisted and holds it, with its
\* timestamp, the source still serving what was persisted.
C39_Witness ==
    /\ regCall.op = "initialize"
    /\ regCall.cache = "valid"
    /\ regCall.nth = 1
    /\ ~regCall.result
    /\ PersistedBySync
    /\ specs = srcCatalog
    /\ lastSyncTimestamp = lsLastSyncTimestamp
    /\ lastSyncTimestamp > 0

=============================================================================
